---- MODULE Spec2Model ----
(***************************************************************************)
(* Model of the price snapshot manager (app/services/price_service.py),    *)
(* its HTTP handlers (app/api/endpoints/prices.py) and the P&L engine      *)
(* (app/services/pnl_service.py, app/api/endpoints/ideas.py) of RMS, of   *)
(* the earnings router (app/api/endpoints/earnings.py) and of the deletion *)
(* of a folder (app/api/endpoints/folders.py).                             *)
(*                                                                         *)
(* Time is counted in ticks; a calendar day has TicksPerDay ticks and the  *)
(* last tick of a day stands for 23:59:59.  A datetime is a tick number,   *)
(* a date is a day number.  Prices are positive integers and 0 is None.    *)
(***************************************************************************)
EXTENDS Integers, Sequences, FiniteSets, TLC

VARIABLES
    table,      \* rows of price_snapshots committed to the database
    ideas,      \* rows of ideas (with the tickers of their folder)
    now,        \* the clock, in UTC ticks
    tz,         \* offset of the server's local time from UTC, in ticks
    last,       \* the last completed request and what it returned
    nops,       \* number of requests served so far
    sess,       \* per worker: the request in progress (multi-worker runs)
    db          \* the tables folders, earnings and guidance

vars == <<table, ideas, now, tz, last, nops, sess, db>>

(***************************************************************************)
(* Bounds of the model.                                                    *)
(***************************************************************************)
MaxDay == 2
MaxOps == 2
MaxLen == 3
MaxLifeOps == 3

\* The time of day datetime.max.time().replace(microsecond=0), 23:59:59: the
\* last tick of a day.  Tick 0 is datetime.min.time(), 00:00:00.
EndOfDayTick == 2
TicksPerDay == EndOfDayTick + 1

None == 0

Days == 1..MaxDay
Legs == {"primary", "secondary"}
ClosePrices == {1}
QuotePrices == {2}
ManualPrices == {1}
Notes == {"n"}
FirstTick == TicksPerDay
LastTick == (MaxDay + 1) * TicksPerDay - 1
Ticks == FirstTick..LastTick
TzOffsets == (1 - TicksPerDay)..(TicksPerDay - 1)
Workers == {1, 2}

(***************************************************************************)
(* Dates and datetimes.                                                    *)
(***************************************************************************)
\* datetime.date()
Date(ts) == ts \div TicksPerDay

\* datetime.combine(d, datetime.min.time())
StartOfDay(d) == d * TicksPerDay

\* datetime.combine(d, datetime.max.time().replace(microsecond=0))
EndOfDay(d) == d * TicksPerDay + EndOfDayTick

\* date.today() at UTC instant t: the date of the server's local clock
LocalDate(t, tz_) == Date(t + tz_)

(***************************************************************************)
(* Ideas.                                                                  *)
(***************************************************************************)
is_pair(idea) == idea.trade_type = "PAIR_LONG_SHORT"

is_closed(idea) == idea.status \in {"CLOSED", "KILLED"}

(***************************************************************************)
(* The price_snapshots table.                                              *)
(***************************************************************************)
PriceSnapshot(idea_id, timestamp, price_primary, price_secondary, source, note) ==
    [idea_id |-> idea_id, timestamp |-> timestamp,
     price_primary |-> price_primary, price_secondary |-> price_secondary,
     source |-> source, note |-> note]

SnapshotsOf(t, idea_id) == {r \in t : r.idea_id = idea_id}

Key(r) == <<r.idea_id, r.timestamp>>

\* Mutant: the table has no unique constraint.
ViolatesUniqueNever(t, batch) == FALSE

\* UniqueConstraint("idea_id", "timestamp"): does adding the rows of the
\* sequence batch to t violate it?
ViolatesUnique(t, batch) ==
    \/ \E i \in 1..Len(batch) : \E r \in t : Key(r) = Key(batch[i])
    \/ \E i, j \in 1..Len(batch) : i # j /\ Key(batch[i]) = Key(batch[j])

\* Mutant: the rows are written with INSERT OR IGNORE, a row whose key is
\* taken is dropped without an error.
CommitIgnoringDuplicates(t, batch) ==
    [error |-> "",
     table |-> t \cup {batch[i] : i \in {j \in 1..Len(batch) :
                                           \A r \in t : Key(r) # Key(batch[j])}}]

\* The rows are written with INSERT OR REPLACE: a row whose key is taken
\* takes the place of the stored one.
CommitReplacing(t, batch) ==
    [error |-> "",
     table |-> {r \in t : \A i \in 1..Len(batch) : Key(r) # Key(batch[i])}
               \cup {batch[i] : i \in 1..Len(batch)}]

\* Every row is committed on its own: the rows before the first one whose
\* key is taken stay stored when the constraint fails.
RECURSIVE CommitRowByRow(_, _)
CommitRowByRow(t, batch) ==
    IF batch = <<>> THEN [error |-> "", table |-> t]
    ELSE IF \E r \in t : Key(r) = Key(Head(batch))
    THEN [error |-> "IntegrityError", table |-> t]
    ELSE CommitRowByRow(t \cup {Head(batch)}, Tail(batch))

\* Session.commit() of a session holding the pending rows of batch: all of
\* them are inserted, or the unique constraint fails the flush and the
\* transaction is rolled back.
Commit(t, batch) ==
    IF ViolatesUnique(t, batch)
    THEN [error |-> "IntegrityError", table |-> t]
    ELSE [error |-> "", table |-> t \cup {batch[i] : i \in 1..Len(batch)}]

(***************************************************************************)
(* The market-data provider.  The exchange of the primary ticker is closed *)
(* every third day and that of the secondary ticker every odd day; a       *)
(* call of the provider may fail as a whole.                               *)
(***************************************************************************)
Close(leg, d) ==
    IF leg = "primary"
    THEN (IF d % 3 = 0 THEN None ELSE 1)
    ELSE (IF d % 2 = 1 THEN None ELSE 1)

RECURSIVE HistRows(_, _, _)
HistRows(leg, d, end_date) ==
    IF d > end_date THEN <<>>
    ELSE (IF d \in Days /\ Close(leg, d) # None THEN <<(<<d, Close(leg, d)>>)>> ELSE <<>>)
         \o HistRows(leg, d + 1, end_date)

\* PriceService.fetch_historical_prices: the (date, close) rows of the
\* inclusive range, in date order; [] when there is no data or on any error
\* (provider_ok = FALSE).
fetch_historical_prices(leg, start_date, end_date, provider_ok) ==
    IF provider_ok THEN HistRows(leg, start_date, end_date) ELSE <<>>

\* Mutant: the timestamps are not reduced to their dates.
get_existing_snapshot_timestamps(t, idea_id) ==
    {r.timestamp : r \in {x \in t : x.idea_id = idea_id}}

\* The dates of the snapshots of every idea: the query without its filter
\* on idea_id.
get_existing_snapshot_dates_of_all_ideas(t, idea_id) == {Date(r.timestamp) : r \in t}

\* PriceService.get_existing_snapshot_dates
get_existing_snapshot_dates(t, idea_id) ==
    {Date(r.timestamp) : r \in SnapshotsOf(t, idea_id)}

\* secondary_prices_map.get(snapshot_date), the map being
\* {d: p for d, p in secondary_prices}: the last row of a date wins.
secondary_prices_map_get(secondary_prices, snapshot_date) ==
    LET hits == {i \in 1..Len(secondary_prices) : secondary_prices[i][1] = snapshot_date}
    IN  IF hits = {} THEN None
        ELSE secondary_prices[CHOOSE i \in hits : \A j \in hits : j <= i][2]

\* Mutant: the backfill never skips a date ("if False: continue").
SkipExistingNever(snapshot_date, existing_dates) == FALSE

\* The test "snapshot_date in existing_dates" of the backfill loop.
SkipExisting(snapshot_date, existing_dates) == snapshot_date \in existing_dates

\* Mutant: a pair date without a secondary price is not skipped.
SkipOneLeggedNever(idea, price_secondary) == FALSE

\* The test "price_secondary is None" of the backfill loop, for a pair.
SkipOneLegged(idea, price_secondary) == is_pair(idea) /\ price_secondary = None

\* Mutant: the timestamp is not normalized to the end of the day.
BackfillTimestampMidnight(snapshot_date) == StartOfDay(snapshot_date)

\* The timestamp of a backfilled snapshot.
BackfillTimestamp(snapshot_date) == EndOfDay(snapshot_date)

\* Mutant: the loop stops at the first date that has a snapshot ("break"
\* for "continue").
RECURSIVE BackfillLoopBreak(_, _, _, _, _)
BackfillLoopBreak(idea_id, idea, existing_dates, primary_prices, secondary_prices) ==
    IF primary_prices = <<>> THEN <<>>
    ELSE LET snapshot_date == Head(primary_prices)[1]
             price_primary == Head(primary_prices)[2]
             price_secondary ==
                 IF is_pair(idea)
                 THEN secondary_prices_map_get(secondary_prices, snapshot_date)
                 ELSE None
             rest == BackfillLoopBreak(idea_id, idea, existing_dates,
                                       Tail(primary_prices), secondary_prices)
         IN  IF SkipExisting(snapshot_date, existing_dates) THEN <<>>
             ELSE IF SkipOneLegged(idea, price_secondary) THEN rest
             ELSE <<PriceSnapshot(idea_id, BackfillTimestamp(snapshot_date),
                                  price_primary, price_secondary, "YFINANCE", "")>>
                  \o rest

\* The loop of backfill_prices_idempotent over primary_prices: the snapshots
\* added to the session, in order.
RECURSIVE BackfillLoop(_, _, _, _, _)
BackfillLoop(idea_id, idea, existing_dates, primary_prices, secondary_prices) ==
    IF primary_prices = <<>> THEN <<>>
    ELSE LET snapshot_date == Head(primary_prices)[1]
             price_primary == Head(primary_prices)[2]
             price_secondary ==
                 IF is_pair(idea)
                 THEN secondary_prices_map_get(secondary_prices, snapshot_date)
                 ELSE None
             rest == BackfillLoop(idea_id, idea, existing_dates,
                                  Tail(primary_prices), secondary_prices)
         IN  IF SkipExisting(snapshot_date, existing_dates) THEN rest
             ELSE IF SkipOneLegged(idea, price_secondary) THEN rest
             ELSE <<PriceSnapshot(idea_id, BackfillTimestamp(snapshot_date),
                                  price_primary, price_secondary, "YFINANCE", "")>>
                  \o rest

\* PriceService.backfill_prices_idempotent on table t, given the existing
\* dates it has read: what it returns and the table it leaves.  ok[leg] tells
\* whether the provider answers for the leg.
BackfillWrite(t, idea_id, idea, existing_dates, start_date, end_date, ok) ==
    LET primary_prices ==
            fetch_historical_prices("primary", start_date, end_date, ok["primary"])
        secondary_prices ==
            IF is_pair(idea) /\ idea.ticker_secondary
            THEN fetch_historical_prices("secondary", start_date, end_date, ok["secondary"])
            ELSE <<>>
        batch == BackfillLoop(idea_id, idea, existing_dates, primary_prices, secondary_prices)
        created_count == Len(batch)
        c == Commit(t, batch)
    IN  IF primary_prices = <<>> \/ created_count = 0
        THEN [result |-> 0, error |-> "", table |-> t]
        ELSE IF c.error # ""
        THEN [result |-> 0, error |-> c.error, table |-> c.table]
        ELSE [result |-> created_count, error |-> "", table |-> c.table]

backfill_prices_idempotent(t, idea_id, idea, start_date, end_date, ok) ==
    BackfillWrite(t, idea_id, idea, get_existing_snapshot_dates(t, idea_id),
                  start_date, end_date, ok)

\* The defaults of the handler backfill_prices for an absent start or end.
BackfillStart(idea, req_start) == IF req_start # None THEN req_start ELSE idea.start_date
BackfillEnd(req_end, today_) == IF req_end # None THEN req_end ELSE today_

(***************************************************************************)
(* fetch_latest_and_create_snapshot.                                       *)
(***************************************************************************)
\* Lines 225-239 without the test of the secondary price.
FetchPricesPrimaryOnly(idea, cp, cs) ==
    IF cp = None THEN [ok |-> FALSE, price_primary |-> None, price_secondary |-> None]
    ELSE [ok |-> TRUE, price_primary |-> cp,
          price_secondary |-> IF is_pair(idea) /\ idea.ticker_secondary THEN cs ELSE None]

\* Lines 225-239: cp and cs are what the provider answers for the primary and
\* the secondary ticker (None: unavailable); the secondary ticker is asked
\* for only for a pair.
FetchPrices(idea, cp, cs) ==
    LET price_secondary ==
            IF is_pair(idea) /\ idea.ticker_secondary THEN cs ELSE None
    IN  IF cp = None THEN [ok |-> FALSE, price_primary |-> None, price_secondary |-> None]
        ELSE IF is_pair(idea) /\ price_secondary = None
        THEN [ok |-> FALSE, price_primary |-> None, price_secondary |-> None]
        ELSE [ok |-> TRUE, price_primary |-> cp, price_secondary |-> price_secondary]

\* The query of lines 243-251 without its .first(): the snapshots of the idea
\* whose timestamp lies in [today 00:00, today + 1 day 00:00).
TodaySnapshots(t, idea_id, today_) ==
    {r \in SnapshotsOf(t, idea_id) :
        /\ r.timestamp >= StartOfDay(today_)
        /\ r.timestamp < StartOfDay(today_ + 1)}

\* Lines 253-259: the existing snapshot updated in place.
UpdatedSnapshot(existing, price_primary, price_secondary) ==
    [existing EXCEPT !.price_primary = price_primary,
                     !.price_secondary = price_secondary,
                     !.source = "YFINANCE"]

\* Lines 253-274 once the query has answered: existing is {} (no snapshot for
\* today) or {row}.
FetchWrite(t, idea_id, p, existing, utcnow_) ==
    IF existing # {}
    THEN LET e == CHOOSE r \in existing : TRUE
             u == UpdatedSnapshot(e, p.price_primary, p.price_secondary)
         IN  [error |-> "", snapshot |-> {u}, created |-> FALSE,
              table |-> (t \ {e}) \cup {u}]
    ELSE LET snapshot == PriceSnapshot(idea_id, utcnow_, p.price_primary,
                                       p.price_secondary, "YFINANCE", "")
             c == Commit(t, <<snapshot>>)
         IN  IF c.error # ""
             THEN [error |-> c.error, snapshot |-> {}, created |-> FALSE, table |-> t]
             ELSE [error |-> "", snapshot |-> {snapshot}, created |-> TRUE,
                   table |-> c.table]

\* The rows .first() may answer: any row of the window, or none.
FirstOf(rows) == IF rows = {} THEN {{}} ELSE {{r} : r \in rows}

(***************************************************************************)
(* add_manual_snapshot.                                                    *)
(***************************************************************************)
\* Line 288: the validation of a manual snapshot.
ManualRejected(idea, price_secondary) == is_pair(idea) /\ price_secondary = None

add_manual_snapshot(t, idea_id, idea, timestamp, price_primary, price_secondary, note) ==
    IF ManualRejected(idea, price_secondary)
    THEN [error |-> "ValueError", snapshot |-> {}, table |-> t]
    ELSE LET snapshot == PriceSnapshot(idea_id, timestamp, price_primary,
                                       price_secondary, "MANUAL", note)
             c == Commit(t, <<snapshot>>)
         IN  IF c.error # ""
             THEN [error |-> c.error, snapshot |-> {}, table |-> t]
             ELSE [error |-> "", snapshot |-> {snapshot}, table |-> c.table]

(***************************************************************************)
(* Decimal arithmetic of the P&L engine.  A Decimal is an exact fraction   *)
(* [num, den] in lowest terms; an absent Optional[Decimal] of a result is  *)
(* NoValue.  math.log is not computed: the log return ln(c / e) is the     *)
(* record of the fraction c / e, and a difference of log returns or its    *)
(* product with a size is kept as the record of its operands.              *)
(***************************************************************************)
NoValue == [none |-> TRUE]

Abs(n) == IF n < 0 THEN -n ELSE n

RECURSIVE GCD(_, _)
GCD(a, b) == IF b = 0 THEN a ELSE GCD(b, a % b)

\* n / d, d # 0
Frac(n, d) ==
    LET g == GCD(Abs(n), Abs(d))
        sgn == IF d < 0 THEN -1 ELSE 1
    IN  [num |-> sgn * (n \div g), den |-> sgn * (d \div g)]

Dec(n) == Frac(n, 1)

FracSub(a, b) == Frac(a.num * b.den - b.num * a.den, a.den * b.den)
\* Mutant: the product is a sum.
FracSum(a, b) == Frac(a.num * b.den + b.num * a.den, a.den * b.den)

FracMul(a, b) == Frac(a.num * b.num, a.den * b.den)
FracDiv(a, b) == Frac(a.num * b.den, a.den * b.num)

\* Decimal(str(log(float(current) / float(entry))))
Ln(entry_price, current_price) ==
    LET q == Frac(current_price, entry_price)
    IN  [ln_num |-> q.num, ln_den |-> q.den]

(***************************************************************************)
(* PnLService.                                                             *)
(***************************************************************************)
\* Lines 47, 62, 69 and 97-102: the price checks that raise ValueError.
long_pnl_raises(entry_price, current_price) == entry_price <= 0

short_pnl_raises(entry_price, current_price) == entry_price <= 0

log_return_raises(entry_price, current_price) == entry_price <= 0 \/ current_price <= 0

pair_pnl_raises(entry_long, current_long, entry_short, current_short) ==
    entry_long <= 0 \/ entry_short <= 0 \/ current_long <= 0 \/ current_short <= 0

\* Mutant: the return is taken over the current price.
calculate_long_pnl_over_current(entry_price, current_price) ==
    FracDiv(FracSub(Dec(current_price), Dec(entry_price)), Dec(current_price))

\* (current - entry) / entry
calculate_long_pnl(entry_price, current_price) ==
    FracDiv(FracSub(Dec(current_price), Dec(entry_price)), Dec(entry_price))

\* Mutant: the return is taken over the current price.
calculate_short_pnl_over_current(entry_price, current_price) ==
    FracDiv(FracSub(Dec(entry_price), Dec(current_price)), Dec(current_price))

\* (entry - current) / entry
calculate_short_pnl(entry_price, current_price) ==
    FracDiv(FracSub(Dec(entry_price), Dec(current_price)), Dec(entry_price))

\* Mutant: the two log returns are handed back in the other order.
calculate_pair_pnl_log_legs_swapped(entry_long, current_long, entry_short, current_short) ==
    LET log_return_long == Ln(entry_long, current_long)
        log_return_short == Ln(entry_short, current_short)
        ratio_long == FracDiv(Dec(current_long), Dec(entry_long))
        ratio_short == FracDiv(Dec(current_short), Dec(entry_short))
    IN  [spread_pnl |-> [minuend |-> log_return_long, subtrahend |-> log_return_short],
         log_long |-> log_return_short,
         log_short |-> log_return_long,
         simple_spread |-> FracSub(FracDiv(ratio_long, ratio_short), Dec(1))]

\* (spread_pnl, log_return_long, log_return_short, simple_spread)
calculate_pair_pnl_log(entry_long, current_long, entry_short, current_short) ==
    LET log_return_long == Ln(entry_long, current_long)
        log_return_short == Ln(entry_short, current_short)
        ratio_long == FracDiv(Dec(current_long), Dec(entry_long))
        ratio_short == FracDiv(Dec(current_short), Dec(entry_short))
    IN  [spread_pnl |-> [minuend |-> log_return_long, subtrahend |-> log_return_short],
         log_long |-> log_return_long,
         log_short |-> log_return_short,
         simple_spread |-> FracSub(FracDiv(ratio_long, ratio_short), Dec(1))]

PnLResult(pnl_percent, pnl_absolute, pnl_primary_leg, pnl_secondary_leg, simple_spread) ==
    [error |-> "", pnl_percent |-> pnl_percent, pnl_absolute |-> pnl_absolute,
     pnl_primary_leg |-> pnl_primary_leg, pnl_secondary_leg |-> pnl_secondary_leg,
     simple_spread |-> simple_spread]

\* raise ValueError(detail)
PnLValueError(detail) == [error |-> "ValueError", detail |-> detail]

\* Mutant: a missing secondary price is not looked for.
SecondaryMissingNever(idea, current_price_secondary) == FALSE

\* Line 173: "not idea.entry_price_secondary or not current_price_secondary"
\* (an absent price and a zero price are both false).
SecondaryMissing(idea, current_price_secondary) ==
    idea.entry_price_secondary = None \/ current_price_secondary = None

calculate_idea_pnl(idea, current_price_primary, current_price_secondary) ==
    IF idea.trade_type = "LONG"
    THEN IF long_pnl_raises(idea.entry_price_primary, current_price_primary)
         THEN PnLValueError("Entry price must be positive")
         ELSE LET pnl_pct == calculate_long_pnl(idea.entry_price_primary,
                                                current_price_primary)
              IN  PnLResult(pnl_pct,
                            IF idea.position_size # 0
                            THEN FracMul(pnl_pct, Dec(idea.position_size)) ELSE NoValue,
                            NoValue, NoValue, NoValue)
    ELSE IF idea.trade_type = "SHORT"
    THEN IF short_pnl_raises(idea.entry_price_primary, current_price_primary)
         THEN PnLValueError("Entry price must be positive")
         ELSE LET pnl_pct == calculate_short_pnl(idea.entry_price_primary,
                                                 current_price_primary)
              IN  PnLResult(pnl_pct,
                            IF idea.position_size # 0
                            THEN FracMul(pnl_pct, Dec(idea.position_size)) ELSE NoValue,
                            NoValue, NoValue, NoValue)
    ELSE IF idea.trade_type = "PAIR_LONG_SHORT"
    THEN LET primary_is_long == idea.pair_orientation = "LONG_PRIMARY_SHORT_SECONDARY"
             entry_long == IF primary_is_long THEN idea.entry_price_primary
                           ELSE idea.entry_price_secondary
             current_long == IF primary_is_long THEN current_price_primary
                             ELSE current_price_secondary
             entry_short == IF primary_is_long THEN idea.entry_price_secondary
                            ELSE idea.entry_price_primary
             current_short == IF primary_is_long THEN current_price_secondary
                              ELSE current_price_primary
             r == calculate_pair_pnl_log(entry_long, current_long, entry_short, current_short)
         IN  IF SecondaryMissing(idea, current_price_secondary)
             THEN PnLValueError("Secondary prices required for pair trade P&L")
             ELSE IF pair_pnl_raises(entry_long, current_long, entry_short, current_short)
             THEN PnLValueError("All prices must be positive")
             ELSE PnLResult(r.spread_pnl,
                            IF idea.position_size # 0
                            THEN [factor |-> r.spread_pnl, times |-> idea.position_size]
                            ELSE NoValue,
                            IF primary_is_long THEN r.log_long ELSE r.log_short,
                            IF primary_is_long THEN r.log_short ELSE r.log_long,
                            r.simple_spread)
    ELSE PnLValueError("Unknown trade type")

\* Mutant: the snapshots are taken in the order given.
unsorted(snapshots) == snapshots

\* sorted(snapshots, key=lambda s: s.timestamp): a stable sort, snapshots of
\* one timestamp keep their order.
RECURSIVE sorted_by_timestamp(_)
sorted_by_timestamp(snapshots) ==
    IF snapshots = <<>> THEN <<>>
    ELSE LET x == Head(snapshots)
             rest == sorted_by_timestamp(Tail(snapshots))
             before == SelectSeq(rest, LAMBDA y : y.timestamp < x.timestamp)
             after == SelectSeq(rest, LAMBDA y : y.timestamp >= x.timestamp)
         IN  before \o <<x>> \o after

PnLHistoryPoint(snapshot, result) ==
    [timestamp |-> snapshot.timestamp,
     price_primary |-> snapshot.price_primary,
     price_secondary |-> snapshot.price_secondary,
     pnl_percent |-> result.pnl_percent,
     pnl_primary_leg |-> result.pnl_primary_leg,
     pnl_secondary_leg |-> result.pnl_secondary_leg]

\* The loop of get_pnl_history: a snapshot whose computation raises
\* ValueError is skipped.
RECURSIVE HistoryLoop(_, _)
HistoryLoop(idea, snapshots) ==
    IF snapshots = <<>> THEN <<>>
    ELSE LET snapshot == Head(snapshots)
             result == calculate_idea_pnl(idea, snapshot.price_primary,
                                          snapshot.price_secondary)
         IN  (IF result.error = "ValueError" THEN <<>>
              ELSE <<PnLHistoryPoint(snapshot, result)>>)
             \o HistoryLoop(idea, Tail(snapshots))

get_pnl_history(idea, snapshots) ==
    [error |-> "",
     idea_id |-> idea.id,
     trade_type |-> idea.trade_type,
     entry_price_primary |-> idea.entry_price_primary,
     entry_price_secondary |-> idea.entry_price_secondary,
     history |-> HistoryLoop(idea, sorted_by_timestamp(snapshots))]

\* Mutant: the exit prices are never used.
UseExitPricesNever(idea) == FALSE

\* Line 226: "if idea.is_closed and idea.exit_price_primary"
UseExitPrices(idea) == is_closed(idea) /\ idea.exit_price_primary # None

get_pnl_response(idea, price_primary, price_secondary) ==
    LET current_price_primary ==
            IF UseExitPrices(idea) THEN idea.exit_price_primary ELSE price_primary
        current_price_secondary ==
            IF UseExitPrices(idea) /\ idea.exit_price_secondary # None
            THEN idea.exit_price_secondary ELSE price_secondary
        result == calculate_idea_pnl(idea, current_price_primary, current_price_secondary)
    IN  IF result.error # "" THEN [error |-> result.error]
        ELSE [error |-> "",
              idea_id |-> idea.id,
              trade_type |-> idea.trade_type,
              is_realized |-> is_closed(idea),
              entry_price_primary |-> idea.entry_price_primary,
              entry_price_secondary |-> idea.entry_price_secondary,
              current_price_primary |-> current_price_primary,
              current_price_secondary |-> current_price_secondary,
              pnl_percent |-> result.pnl_percent,
              pnl_absolute |-> result.pnl_absolute,
              pnl_primary_leg |-> result.pnl_primary_leg,
              pnl_secondary_leg |-> result.pnl_secondary_leg,
              simple_spread |-> result.simple_spread]

(***************************************************************************)
(* The record of the last completed request: what was asked, what was      *)
(* answered (result: the count a backfill returns; snapshot: the snapshot  *)
(* a fetch or a manual add returns, and for a backfill the snapshots it    *)
(* stored), the number of snapshots before it (nb), whether it repeats the *)
(* request before it (again) and then the number of snapshots before that  *)
(* one (n0).                                                               *)
(***************************************************************************)
Done(op, idea_id, req, result, snapshot, error, created, nb, again, n0) ==
    [op |-> op, idea_id |-> idea_id, req |-> req,
     result |-> result, snapshot |-> snapshot, error |-> error,
     created |-> created, nb |-> nb, again |-> again, n0 |-> n0]

NoRequest == Done("none", None, <<>>, 0, {}, "", FALSE, 0, FALSE, 0)

\* The row create_idea stores, with what the model keeps of its folder:
\* ticker_secondary tells whether the folder has a secondary ticker.
Idea(id, trade_type, pair_orientation, entry_primary, entry_secondary, size, in_pair_folder) ==
    [id |-> id, trade_type |-> trade_type, pair_orientation |-> pair_orientation,
     status |-> "DRAFT", start_date |-> 1,
     entry_price_primary |-> entry_primary,
     entry_price_secondary |-> entry_secondary,
     position_size |-> size,
     exit_price_primary |-> None, exit_price_secondary |-> None, exit_date |-> None,
     ticker_secondary |-> in_pair_folder]

\* The ideas create_idea accepts (IdeaCreate.validate_pair_trade, and a pair
\* only in a PAIR folder).
ValidIdea(idea) ==
    /\ idea.entry_price_primary > 0
    /\ is_pair(idea) =>
          /\ idea.pair_orientation # ""
          /\ idea.entry_price_secondary # None
          /\ idea.ticker_secondary

\* An idea as the snapshot manager sees it.
SnapshotIdea(trade_type) ==
    IF trade_type = "PAIR_LONG_SHORT"
    THEN Idea(1, trade_type, "LONG_PRIMARY_SHORT_SECONDARY", 1, 1, 0, TRUE)
    ELSE Idea(1, trade_type, "", 1, None, 0, FALSE)

\* The record of a completed request of the ideas router.
Answered(op, idea_id, req, response, error) ==
    [op |-> op, idea_id |-> idea_id, req |-> req, response |-> response, error |-> error]

Idle == [w \in Workers |-> [pc |-> "idle"]]

\* No folder, no earnings, no guidance; next_id is the next primary key.
EmptyDb == [folders |-> {}, earnings |-> {}, guidance |-> {}, next_id |-> 1]

ProviderAnswers == [Legs -> BOOLEAN]

(***************************************************************************)
(* Requests served one at a time (a single worker: every handler is an     *)
(* async def without an await, so it runs to completion on the event       *)
(* loop).                                                                  *)
(***************************************************************************)
Init ==
    /\ table = {}
    /\ \E tt \in {"LONG", "PAIR_LONG_SHORT"} : ideas = [i \in {1} |-> SnapshotIdea(tt)]
    /\ now = FirstTick
    /\ tz \in TzOffsets
    /\ last = NoRequest
    /\ nops = 0
    /\ sess = Idle
    /\ db = EmptyDb

\* POST /ideas/{idea_id}/prices/backfill
Backfill(id) ==
    /\ nops < MaxOps
    /\ \E req_start \in Days \cup {None}, req_end \in Days \cup {None},
          ok \in ProviderAnswers :
         LET idea == ideas[id]
             start_date == BackfillStart(idea, req_start)
             end_date == BackfillEnd(req_end, LocalDate(now, tz))
             r == backfill_prices_idempotent(table, id, idea, start_date, end_date, ok)
             req == <<start_date, end_date, ok>>
             again == /\ last.op = "backfill"
                      /\ last.idea_id = id
                      /\ last.error = ""
                      /\ last.req = req
         IN  /\ table' = r.table
             /\ last' = Done("backfill", id, req, r.result, r.table \ table, r.error,
                             r.result > 0, Cardinality(SnapshotsOf(table, id)), again,
                             IF again THEN last.nb ELSE 0)
    /\ nops' = nops + 1
    /\ UNCHANGED <<ideas, now, tz, sess, db>>

\* POST /ideas/{idea_id}/prices/fetch, called at some instant t from now on.
\* The call takes time: the clock has moved on when it returns, so no two
\* calls read the same utcnow().
FetchLatest(id) ==
    /\ nops < MaxOps
    /\ \E t \in now..LastTick, cp \in QuotePrices \cup {None},
          cs \in (IF is_pair(ideas[id]) THEN QuotePrices \cup {None} ELSE {None}) :
         LET idea == ideas[id]
             today == LocalDate(t, tz)
             utcnow == t
             p == FetchPrices(idea, cp, cs)
             req == <<cp, cs, today, utcnow>>
             again == /\ last.op = "fetch"
                      /\ last.idea_id = id
                      /\ last.error = ""
                      /\ last.req[3] = today
                      /\ Date(last.req[4]) = Date(utcnow)
             n0 == IF again THEN last.nb ELSE 0
         IN  /\ now' = t + 1
             /\ IF ~p.ok
                THEN /\ table' = table
                     /\ last' = Done("fetch", id, req, 0, {}, "Unavailable",
                                     FALSE, Cardinality(SnapshotsOf(table, id)), FALSE, 0)
                ELSE \E existing \in FirstOf(TodaySnapshots(table, id, today)) :
                         LET w == FetchWrite(table, id, p, existing, utcnow)
                         IN  /\ table' = w.table
                             /\ last' = Done("fetch", id, req, 0, w.snapshot, w.error,
                                             w.created, Cardinality(SnapshotsOf(table, id)),
                                             again, n0)
    /\ nops' = nops + 1
    /\ UNCHANGED <<ideas, tz, sess, db>>

\* POST /ideas/{idea_id}/prices.  The schema admits only positive prices.
AddManual(id) ==
    /\ nops < MaxOps
    /\ \E timestamp \in Ticks, price_primary \in ManualPrices,
          price_secondary \in ManualPrices \cup {None}, note \in Notes :
         LET r == add_manual_snapshot(table, id, ideas[id], timestamp,
                                      price_primary, price_secondary, note)
         IN  /\ table' = r.table
             /\ last' = Done("manual", id,
                             <<timestamp, price_primary, price_secondary, note>>,
                             0, r.snapshot, r.error, r.snapshot # {},
                             Cardinality(SnapshotsOf(table, id)), FALSE, 0)
    /\ nops' = nops + 1
    /\ UNCHANGED <<ideas, now, tz, sess, db>>

Next ==
    \/ \E id \in DOMAIN ideas : Backfill(id)
    \/ \E id \in DOMAIN ideas : FetchLatest(id)
    \/ \E id \in DOMAIN ideas : AddManual(id)

Spec == Init /\ [][Next]_vars

(***************************************************************************)
(* Requests served by several workers, each with its own database session  *)
(* (get_db).  A backfill touches the database twice: it reads the existing *)
(* dates, and after the calls of the provider it commits its snapshots.    *)
(* A manual snapshot touches it once, at its commit.                       *)
(***************************************************************************)
InFlight == Cardinality({w \in Workers : sess[w].pc # "idle"})

\* backfill_prices_idempotent up to line 156: the existing dates are read.
StartBackfill(w, id) ==
    /\ sess[w].pc = "idle"
    /\ nops + InFlight < MaxOps
    /\ \E req_start \in Days \cup {None}, req_end \in Days \cup {None},
          ok \in ProviderAnswers :
         sess' = [sess EXCEPT ![w] =
                     [pc |-> "backfill", idea_id |-> id,
                      existing_dates |-> get_existing_snapshot_dates(table, id),
                      start_date |-> BackfillStart(ideas[id], req_start),
                      end_date |-> BackfillEnd(req_end, LocalDate(now, tz)),
                      ok |-> ok]]
    /\ UNCHANGED <<table, ideas, now, tz, last, nops, db>>

\* backfill_prices_idempotent from line 158 on: the provider is called, the
\* loop fills the session and the session is committed.
CommitBackfill(w) ==
    /\ sess[w].pc = "backfill"
    /\ LET s == sess[w]
           r == BackfillWrite(table, s.idea_id, ideas[s.idea_id], s.existing_dates,
                              s.start_date, s.end_date, s.ok)
       IN  /\ table' = r.table
           /\ last' = Done("backfill", s.idea_id, <<s.start_date, s.end_date, s.ok>>,
                           r.result, r.table \ table, r.error, r.result > 0,
                           Cardinality(SnapshotsOf(table, s.idea_id)), FALSE, 0)
    /\ sess' = [sess EXCEPT ![w] = [pc |-> "idle"]]
    /\ nops' = nops + 1
    /\ UNCHANGED <<ideas, now, tz, db>>

\* add_manual_snapshot by worker w: one commit, nothing is read before it.
ManualByWorker(w, id) ==
    /\ sess[w].pc = "idle"
    /\ nops + InFlight < MaxOps
    /\ AddManual(id)

NextConc ==
    \/ \E w \in Workers, id \in DOMAIN ideas : StartBackfill(w, id)
    \/ \E w \in Workers : CommitBackfill(w)
    \/ \E w \in Workers, id \in DOMAIN ideas : ManualByWorker(w, id)

\* No request of these runs reads the local date but for the default end of
\* a backfill, which the explicit end dates cover: the server runs in UTC.
InitConc == Init /\ tz = 0

SpecConc == InitConc /\ [][NextConc]_vars

(***************************************************************************)
(* Concurrent fetches.  fetch_latest_and_create_snapshot touches the       *)
(* database twice: it asks for today's snapshot (lines 243-251), then it   *)
(* updates the row it was given or inserts a new one and commits.          *)
(***************************************************************************)
\* Lines 225-251: the prices are fetched and today's snapshot is read, at
\* some instant t from now on.
StartFetch(w, id) ==
    /\ sess[w].pc = "idle"
    /\ nops + InFlight < MaxOps
    /\ \E t \in now..LastTick, cp \in QuotePrices \cup {None},
          cs \in (IF is_pair(ideas[id]) THEN QuotePrices \cup {None} ELSE {None}) :
         LET idea == ideas[id]
             today == LocalDate(t, tz)
             p == FetchPrices(idea, cp, cs)
         IN  /\ now' = t
             /\ IF ~p.ok
                THEN /\ last' = Done("fetch", id, <<cp, cs, today, t>>, 0, {}, "Unavailable",
                                     FALSE, Cardinality(SnapshotsOf(table, id)), FALSE, 0)
                     /\ nops' = nops + 1
                     /\ sess' = sess
                ELSE /\ \E existing \in FirstOf(TodaySnapshots(table, id, today)) :
                          sess' = [sess EXCEPT ![w] =
                                      [pc |-> "fetch", idea_id |-> id, cp |-> cp, cs |-> cs,
                                       today |-> today, existing |-> existing]]
                     /\ UNCHANGED <<last, nops>>
    /\ UNCHANGED <<table, ideas, tz, db>>

\* Lines 253-274, at some instant utcnow from now on: the row read is
\* updated by its primary key, or a new row is inserted; commit.
CommitFetch(w) ==
    /\ sess[w].pc = "fetch"
    /\ \E utcnow \in now..LastTick :
         LET s == sess[w]
             p == FetchPrices(ideas[s.idea_id], s.cp, s.cs)
             row == {r \in table : \E e \in s.existing : Key(r) = Key(e)}
             f == FetchWrite(table, s.idea_id, p, row, utcnow)
         IN  /\ table' = f.table
             /\ now' = utcnow
             /\ last' = Done("fetch", s.idea_id, <<s.cp, s.cs, s.today, utcnow>>, 0,
                             f.snapshot, f.error, f.created,
                             Cardinality(SnapshotsOf(table, s.idea_id)), FALSE, 0)
    /\ sess' = [sess EXCEPT ![w] = [pc |-> "idle"]]
    /\ nops' = nops + 1
    /\ UNCHANGED <<ideas, tz, db>>

NextFetchConc ==
    \/ \E w \in Workers, id \in DOMAIN ideas : StartFetch(w, id)
    \/ \E w \in Workers : CommitFetch(w)

SpecFetchConc == InitConc /\ [][NextFetchConc]_vars

(***************************************************************************)
(* Two ideas, each with its own snapshots, served by several workers.      *)
(***************************************************************************)
InitTwo ==
    /\ table = {}
    /\ ideas = <<SnapshotIdea("LONG"), [SnapshotIdea("PAIR_LONG_SHORT") EXCEPT !.id = 2]>>
    /\ now = FirstTick
    /\ tz = 0
    /\ last = NoRequest
    /\ nops = 0
    /\ sess = Idle
    /\ db = EmptyDb

\* The requests of these runs: a backfill of the whole range that the
\* provider answers, a manual snapshot at the end of a day (the timestamp of
\* a backfilled one), a fetch that the provider answers at once.
TwoStartBackfill(w, id) ==
    /\ StartBackfill(w, id)
    /\ sess'[w].start_date = 1
    /\ sess'[w].end_date = MaxDay
    /\ \A leg \in Legs : sess'[w].ok[leg]

TwoManual(w, id) ==
    /\ ManualByWorker(w, id)
    /\ last'.req[1] % TicksPerDay = EndOfDayTick

TwoStartFetch(w, id) ==
    /\ StartFetch(w, id)
    /\ now' = now
    /\ sess'[w].pc = "fetch"

TwoCommitFetch(w) ==
    /\ CommitFetch(w)
    /\ now' \in {now, now + 1}

NextTwo ==
    \/ \E w \in Workers, id \in DOMAIN ideas : TwoStartBackfill(w, id)
    \/ \E w \in Workers : CommitBackfill(w)
    \/ \E w \in Workers, id \in DOMAIN ideas : TwoManual(w, id)
    \/ \E w \in Workers, id \in DOMAIN ideas : TwoStartFetch(w, id)
    \/ \E w \in Workers : TwoCommitFetch(w)

SpecTwo == InitTwo /\ [][NextTwo]_vars

(***************************************************************************)
(* The ideas router: the life of an idea and its P&L, requests served one  *)
(* at a time.                                                              *)
(***************************************************************************)
TradeTypes == {"LONG", "SHORT", "PAIR_LONG_SHORT"}
PairOrientations == {"LONG_PRIMARY_SHORT_SECONDARY", "SHORT_PRIMARY_LONG_SECONDARY"}
OpenStatuses == {"DRAFT", "ACTIVE", "SCALED_UP", "TRIMMED"}
ClosedStatuses == {"CLOSED", "KILLED"}
Prices == {1, 2}
Sizes == {0, 3}

\* The ideas left by one create_idea.
NewIdeas ==
    {idea \in {Idea(1, tt, po, ep, es, size, pf) :
                   tt \in TradeTypes, po \in PairOrientations \cup {""},
                   ep \in Prices, es \in Prices \cup {None},
                   size \in Sizes, pf \in BOOLEAN} :
        /\ ValidIdea(idea)
        /\ ~is_pair(idea) => idea.pair_orientation = "" /\ idea.entry_price_secondary = None}

InitPnl ==
    /\ table = {}
    /\ \E idea \in NewIdeas : ideas = [i \in {1} |-> idea]
    /\ now = FirstTick
    /\ tz = 0
    /\ last = NoRequest
    /\ nops = 0
    /\ sess = Idle
    /\ db = EmptyDb

\* The fields of IdeaUpdate the model keeps, and a schema that would also
\* let the entry price through.
IdeaUpdateFieldsWithEntry == {"position_size", "entry_price_primary"}

IdeaUpdateFields == {"position_size"}

\* request.model_dump(exclude_unset=True): the fields of the body that the
\* schema declares; pydantic drops the others.
model_dump(request) == [f \in DOMAIN request \cap IdeaUpdateFields |-> request[f]]

\* setattr(idea, field, value) for the field, if update_data holds it.
setattr(update_data, field, old) == IF field \in DOMAIN update_data THEN update_data[field] ELSE old

\* PUT /ideas/{idea_id}
update_idea(id, request) ==
    LET update_data == model_dump(request)
    IN  /\ ideas' = [ideas EXCEPT
                       ![id].position_size = setattr(update_data, "position_size", @),
                       ![id].trade_type = setattr(update_data, "trade_type", @),
                       ![id].entry_price_primary = setattr(update_data, "entry_price_primary", @),
                       ![id].exit_price_primary = setattr(update_data, "exit_price_primary", @)]
        /\ last' = Answered("update", id, request, ideas'[id], "")
        /\ nops' = nops + 1
        /\ UNCHANGED <<table, now, tz, sess, db>>

\* PATCH /ideas/{idea_id}/status
update_idea_status(id, status) ==
    /\ IF status \in ClosedStatuses
       THEN /\ ideas' = ideas
            /\ last' = Answered("status", id, <<status>>, ideas[id], "400")
       ELSE /\ ideas' = [ideas EXCEPT ![id].status = status]
            /\ last' = Answered("status", id, <<status>>, ideas'[id], "")
    /\ nops' = nops + 1
    /\ UNCHANGED <<table, now, tz, sess, db>>

\* POST /ideas/{idea_id}/close
close_idea(id, status, exit_price_primary, exit_price_secondary, exit_date) ==
    /\ LET req == <<status, exit_price_primary, exit_price_secondary, exit_date>>
       IN  IF is_closed(ideas[id]) \/ (is_pair(ideas[id]) /\ exit_price_secondary = None)
           THEN /\ ideas' = ideas
                /\ last' = Answered("close", id, req, ideas[id], "400")
           ELSE /\ ideas' = [ideas EXCEPT ![id].status = status,
                                          ![id].exit_price_primary = exit_price_primary,
                                          ![id].exit_price_secondary = exit_price_secondary,
                                          ![id].exit_date = exit_date]
                /\ last' = Answered("close", id, req, ideas'[id], "")
    /\ nops' = nops + 1
    /\ UNCHANGED <<table, now, tz, sess, db>>

\* PUT /ideas/{idea_id} with a position_size.
UpdateIdea(id) ==
    /\ nops < MaxOps
    /\ \E position_size \in Sizes : update_idea(id, [f \in {"position_size"} |-> position_size])

\* PATCH /ideas/{idea_id}/status with any status.
UpdateIdeaStatus(id) ==
    /\ nops < MaxOps
    /\ \E status \in OpenStatuses \cup ClosedStatuses : update_idea_status(id, status)

\* POST /ideas/{idea_id}/close.  CloseIdeaRequest admits only CLOSED or
\* KILLED and positive exit prices.
CloseIdea(id) ==
    /\ nops < MaxOps
    /\ \E status \in ClosedStatuses, exit_price_primary \in Prices,
          exit_price_secondary \in Prices \cup {None}, exit_date \in Days :
         close_idea(id, status, exit_price_primary, exit_price_secondary, exit_date)

\* prices.get(idea.folder.ticker_secondary): the secondary ticker is asked
\* for only when the folder has one.
SecondaryQuote(idea, cs) == IF idea.ticker_secondary THEN cs ELSE None

\* GET /ideas/{idea_id}/pnl; cp and cs are the live prices the provider
\* answers (None: unavailable).
GetIdeaPnl(id) ==
    /\ nops < MaxOps
    /\ \E cp \in Prices \cup {None}, cs \in Prices \cup {None} :
         LET idea == ideas[id]
             price_primary == cp
             price_secondary == SecondaryQuote(idea, cs)
         IN  last' = IF price_primary = None \/ (is_pair(idea) /\ price_secondary = None)
                     THEN Answered("pnl", id, <<cp, cs>>, [error |-> "503"], "503")
                     ELSE Answered("pnl", id, <<cp, cs>>,
                                   get_pnl_response(idea, price_primary, price_secondary), "")
    /\ nops' = nops + 1
    /\ UNCHANGED <<table, ideas, now, tz, sess, db>>

\* idea_to_response: the idea with its computed fields.
idea_to_response(idea, current_price_primary, current_price_secondary, pnl_pct, pnl_abs) ==
    [idea |-> idea,
     current_price_primary |-> current_price_primary,
     current_price_secondary |-> current_price_secondary,
     pnl_percent |-> pnl_pct, pnl_absolute |-> pnl_abs]

\* Lines 163-175 of get_idea, and the same lines 110-123 of list_ideas: the
\* idea with the live prices and the P&L computed from them.
IdeaWithPnl(idea, cp, cs) ==
    LET price_primary == cp
        price_secondary == SecondaryQuote(idea, cs)
        result == calculate_idea_pnl(idea, price_primary, price_secondary)
    IN  IF price_primary # None /\ result.error = ""
        THEN idea_to_response(idea, price_primary, price_secondary,
                              result.pnl_percent, result.pnl_absolute)
        ELSE idea_to_response(idea, price_primary, price_secondary, NoValue, NoValue)

\* GET /ideas/{idea_id}
GetIdea(id) ==
    /\ nops < MaxOps
    /\ \E include_pnl \in BOOLEAN, cp \in Prices \cup {None}, cs \in Prices \cup {None} :
         last' = Answered("get", id, <<include_pnl, cp, cs>>,
                          IF include_pnl THEN IdeaWithPnl(ideas[id], cp, cs)
                          ELSE idea_to_response(ideas[id], None, None, NoValue, NoValue),
                          "")
    /\ nops' = nops + 1
    /\ UNCHANGED <<table, ideas, now, tz, sess, db>>

\* GET /ideas: the response holds one entry per idea.
ListIdeas ==
    /\ nops < MaxOps
    /\ \E include_pnl \in BOOLEAN, cp \in Prices \cup {None}, cs \in Prices \cup {None} :
         last' = Answered("list", None, <<include_pnl, cp, cs>>,
                          [id \in DOMAIN ideas |->
                              IF include_pnl THEN IdeaWithPnl(ideas[id], cp, cs)
                              ELSE idea_to_response(ideas[id], None, None, NoValue, NoValue)],
                          "")
    /\ nops' = nops + 1
    /\ UNCHANGED <<table, ideas, now, tz, sess, db>>

NextPnl ==
    \/ \E id \in DOMAIN ideas : UpdateIdea(id)
    \/ \E id \in DOMAIN ideas : UpdateIdeaStatus(id)
    \/ \E id \in DOMAIN ideas : CloseIdea(id)
    \/ \E id \in DOMAIN ideas : GetIdeaPnl(id)
    \/ \E id \in DOMAIN ideas : GetIdea(id)
    \/ ListIdeas

SpecPnl == InitPnl /\ [][NextPnl]_vars

(***************************************************************************)
(* The life of one idea: the three handlers that write it, in any order,   *)
(* the PUT body holding any fields, declared by IdeaUpdate or not.         *)
(***************************************************************************)
BodyFields == {"position_size", "trade_type", "entry_price_primary", "exit_price_primary"}

UpdateBodies ==
    {[f \in F |-> CASE f = "position_size" -> position_size
                    [] f = "trade_type" -> trade_type
                    [] f = "entry_price_primary" -> entry_price_primary
                    [] f = "exit_price_primary" -> exit_price_primary] :
        F \in SUBSET BodyFields, position_size \in {3}, trade_type \in {"SHORT"},
        entry_price_primary \in {2}, exit_price_primary \in {2}}

LifeUpdate(id) ==
    /\ nops < MaxLifeOps
    /\ \E request \in UpdateBodies : update_idea(id, request)

LifeStatus(id) ==
    /\ nops < MaxLifeOps
    /\ \E status \in {"ACTIVE", "CLOSED"} : update_idea_status(id, status)

LifeClose(id) ==
    /\ nops < MaxLifeOps
    /\ \E exit_price_primary \in Prices, exit_price_secondary \in {None, 1}, exit_date \in Days :
         close_idea(id, "CLOSED", exit_price_primary, exit_price_secondary, exit_date)

NextLife ==
    \/ \E id \in DOMAIN ideas : LifeUpdate(id)
    \/ \E id \in DOMAIN ideas : LifeStatus(id)
    \/ \E id \in DOMAIN ideas : LifeClose(id)

SpecLife == InitPnl /\ [][NextLife]_vars

(***************************************************************************)
(* The creation of ideas: POST /ideas with any body, in a folder of either *)
(* type or in none.                                                        *)
(***************************************************************************)
FolderTypes == {"SINGLE", "PAIR"}
NoFolder == ""

\* The bodies of POST /ideas: the folder is given by its type.
IdeaCreate ==
    [folder : FolderTypes \cup {NoFolder}, trade_type : TradeTypes,
     pair_orientation : {"", "LONG_PRIMARY_SHORT_SECONDARY"},
     entry_price_primary : {0, 1}, entry_price_secondary : {None, 1}]

\* IdeaCreate: entry_price_primary gt=0, then validate_pair_trade.
validate_pair_trade(request) ==
    IF request.entry_price_primary <= 0 THEN "422"
    ELSE IF request.trade_type = "PAIR_LONG_SHORT" /\ request.pair_orientation = "" THEN "422"
    ELSE IF request.trade_type = "PAIR_LONG_SHORT" /\ request.entry_price_secondary = None THEN "422"
    ELSE ""

\* POST /ideas
create_idea(request) ==
    LET invalid == validate_pair_trade(request)
        id == Len(ideas) + 1
        idea == Idea(id, request.trade_type, request.pair_orientation,
                     request.entry_price_primary, request.entry_price_secondary,
                     0, request.folder = "PAIR")
        error == IF invalid # "" THEN invalid
                 ELSE IF request.folder = NoFolder THEN "404"
                 ELSE IF request.trade_type = "PAIR_LONG_SHORT" /\ request.folder # "PAIR" THEN "400"
                 ELSE ""
    IN  /\ ideas' = IF error = "" THEN Append(ideas, idea) ELSE ideas
        /\ last' = Answered("create", IF error = "" THEN id ELSE None, request,
                            IF error = "" THEN idea ELSE NoValue, error)
        /\ nops' = nops + 1
        /\ UNCHANGED <<table, now, tz, sess, db>>

CreateIdea ==
    /\ nops < MaxOps
    /\ \E request \in IdeaCreate : create_idea(request)

InitCreate ==
    /\ table = {}
    /\ ideas = <<>>
    /\ now = FirstTick
    /\ tz = 0
    /\ last = NoRequest
    /\ nops = 0
    /\ sess = Idle
    /\ db = EmptyDb

NextCreate == CreateIdea

SpecCreate == InitCreate /\ [][NextCreate]_vars

(***************************************************************************)
(* PriceService.get_current_prices called on its own: one call, on any     *)
(* list of at most MaxLen tickers and any answer of the provider.          *)
(***************************************************************************)
TickerSymbols == {"A", "B"}
TickerLists == UNION {[1..n -> TickerSymbols] : n \in 0..MaxLen}

\* What the provider may answer: stock.history(period="1d") for one ticker,
\* yf.download for the batch, and data["Close"][ticker].iloc[-1] for the
\* column of one ticker of the batch.
HistoryAnswers == {"price", "empty", "raises"}
DownloadAnswers == {"data", "empty", "raises"}
ColumnAnswers == {"price", "nan", "KeyError", "IndexError"}

\* The last close of the ticker, when the provider has it.
LastClose(ticker) == IF ticker = "A" THEN 2 ELSE 3

\* PriceService.get_current_price
get_current_price(ticker, history) ==
    IF history[ticker] = "price" THEN LastClose(ticker) ELSE None

\* The loop "for ticker in tickers" left at the first ticker without a
\* price ("break" for "continue").
RECURSIVE PricesLoopBreak(_, _, _)
PricesLoopBreak(tickers, column, result) ==
    IF tickers = <<>> THEN result
    ELSE LET ticker == Head(tickers)
         IN  IF column[ticker] = "price"
             THEN PricesLoopBreak(Tail(tickers), column,
                                  [result EXCEPT ![ticker] = LastClose(ticker)])
             ELSE result

\* The loop "for ticker in tickers" of get_current_prices: a KeyError or an
\* IndexError, and a price that is not a number, leave the ticker at None.
RECURSIVE PricesLoop(_, _, _)
PricesLoop(tickers, column, result) ==
    IF tickers = <<>> THEN result
    ELSE LET ticker == Head(tickers)
         IN  IF column[ticker] = "price"
             THEN PricesLoop(Tail(tickers), column,
                             [result EXCEPT ![ticker] = LastClose(ticker)])
             ELSE PricesLoop(Tail(tickers), column, result)

\* PriceService.get_current_prices: the dict it returns.
get_current_prices(tickers, download, column, history) ==
    LET result == [t \in {tickers[i] : i \in 1..Len(tickers)} |-> None]
    IN  IF tickers = <<>> THEN result
        ELSE IF Len(tickers) = 1
        THEN [result EXCEPT ![tickers[1]] = get_current_price(tickers[1], history)]
        ELSE IF download # "data" THEN result
        ELSE PricesLoop(tickers, column, result)

InitBatch ==
    /\ table = {}
    /\ ideas = <<>>
    /\ now = FirstTick
    /\ tz = 0
    /\ last = NoRequest
    /\ nops = 0
    /\ sess = Idle
    /\ db = EmptyDb

GetCurrentPrices ==
    /\ nops = 0
    /\ \E tickers \in TickerLists, download \in DownloadAnswers,
          column \in [TickerSymbols -> ColumnAnswers],
          history \in [TickerSymbols -> HistoryAnswers] :
         last' = Answered("prices", None,
                          [tickers |-> tickers, download |-> download,
                           column |-> column, history |-> history],
                          get_current_prices(tickers, download, column, history), "")
    /\ nops' = nops + 1
    /\ UNCHANGED <<table, ideas, now, tz, sess, db>>

NextBatch == GetCurrentPrices

SpecBatch == InitBatch /\ [][NextBatch]_vars

(***************************************************************************)
(* The earnings router (app/api/endpoints/earnings.py): the records of the *)
(* table earnings, written by create, update, CSV import and provider      *)
(* fetch.  A session does not autoflush: a query does not see the rows     *)
(* added to the session and not yet committed.                             *)
(***************************************************************************)
\* A SINGLE folder has the ticker A, a PAIR folder the tickers A and B.
Folder(id, type) ==
    [id |-> id, type |-> type, ticker_primary |-> "A",
     ticker_secondary |-> IF type = "PAIR" THEN "B" ELSE ""]

\* Folder.tickers
folder_tickers(folder) ==
    {folder.ticker_primary} \cup (IF folder.ticker_secondary # "" THEN {folder.ticker_secondary} ELSE {})

\* str.upper() on the tickers a request may hold.
upper(ticker) == IF ticker = "a" THEN "A" ELSE IF ticker = "b" THEN "B" ELSE ticker

FiscalQuarters == {"2024-Q3", "2024-Q4"}

Earnings(id, folder_id, ticker, fiscal_quarter, estimate_eps, actual_eps) ==
    [id |-> id, folder_id |-> folder_id, ticker |-> ticker, fiscal_quarter |-> fiscal_quarter,
     estimate_eps |-> estimate_eps, actual_eps |-> actual_eps]

EarningsKey(e) == <<e.folder_id, e.ticker, e.fiscal_quarter>>

\* The table has no unique constraint.
ViolatesUniqueEarningsNever(rows, pending) == FALSE

\* UniqueConstraint("folder_id", "ticker", "fiscal_quarter"): does inserting
\* the rows of the sequence pending violate it?
ViolatesUniqueEarnings(rows, pending) ==
    \/ \E i \in 1..Len(pending) : \E r \in rows : EarningsKey(r) = EarningsKey(pending[i])
    \/ \E i, j \in 1..Len(pending) : i # j /\ EarningsKey(pending[i]) = EarningsKey(pending[j])

\* db.commit() of a session that has modified stored rows (rows is the table
\* with these changes) and holds the new rows of pending: everything is
\* written, or the constraint fails and nothing is.
CommitEarnings(d, rows, pending) ==
    IF ViolatesUniqueEarnings(rows, pending)
    THEN [error |-> "IntegrityError", db |-> d]
    ELSE [error |-> "",
          db |-> [d EXCEPT !.earnings = rows \cup {pending[i] : i \in 1..Len(pending)},
                           !.next_id = d.next_id + Len(pending)]]

\* db.query(Folder).filter(Folder.id == folder_id).first()
FolderById(d, folder_id) == {f \in d.folders : f.id = folder_id}

\* db.query(Earnings).filter(folder_id, ticker, fiscal_quarter).first(): the
\* stored rows with the key.
ExistingEarnings(rows, folder_id, ticker, fiscal_quarter) ==
    {e \in rows : EarningsKey(e) = <<folder_id, ticker, fiscal_quarter>>}

\* POST /earnings
create_earnings(d, request) ==
    LET folder == FolderById(d, request.folder_id)
        ticker == upper(request.ticker)
    IN  IF folder = {} THEN [error |-> "404", db |-> d]
        ELSE IF \A f \in folder : ticker \notin folder_tickers(f)
        THEN [error |-> "400 ticker", db |-> d]
        ELSE IF ExistingEarnings(d.earnings, request.folder_id, ticker, request.fiscal_quarter) # {}
        THEN [error |-> "400 exists", db |-> d]
        ELSE CommitEarnings(d, d.earnings,
                            <<Earnings(d.next_id, request.folder_id, ticker,
                                       request.fiscal_quarter, request.estimate_eps,
                                       request.actual_eps)>>)

\* The fields of EarningsUpdate the model keeps.
EarningsUpdateFields == {"estimate_eps", "actual_eps"}

\* PUT /earnings/{earnings_id}: request.model_dump(exclude_unset=True), then
\* setattr for every field it holds.
update_earnings(d, earnings_id, request) ==
    LET found == {e \in d.earnings : e.id = earnings_id}
        update_data == [f \in DOMAIN request \cap EarningsUpdateFields |-> request[f]]
        updated(e) == [e EXCEPT !.estimate_eps = setattr(update_data, "estimate_eps", @),
                                !.actual_eps = setattr(update_data, "actual_eps", @),
                                !.fiscal_quarter = setattr(update_data, "fiscal_quarter", @)]
    IN  IF found = {} THEN [error |-> "404", db |-> d]
        ELSE CommitEarnings(d, (d.earnings \ found) \cup {updated(e) : e \in found}, <<>>)

\* What the loops of the import and of the fetch carry: the stored rows as
\* the session has modified them, the rows added to the session, counters.
Loop(rows, pending, created, updated, errors) ==
    [rows |-> rows, pending |-> pending, created |-> created, updated |-> updated,
     errors |-> errors]

\* The loop of import_earnings_csv over the rows of the file.
RECURSIVE ImportLoop(_, _, _, _)
ImportLoop(d, folder, csv, acc) ==
    IF csv = <<>> THEN acc
    ELSE LET row == Head(csv)
             ticker == upper(row.ticker)
             existing == ExistingEarnings(acc.rows, folder.id, ticker, row.fiscal_quarter)
             next ==
                 IF ticker = "" \/ row.fiscal_quarter = ""
                 THEN [acc EXCEPT !.errors = @ + 1]
                 ELSE IF ticker \notin folder_tickers(folder)
                 THEN [acc EXCEPT !.errors = @ + 1]
                 ELSE IF existing # {}
                 THEN [acc EXCEPT
                         !.rows = (@ \ existing)
                                  \cup {[e EXCEPT !.estimate_eps = row.estimate_eps,
                                                  !.actual_eps = row.actual_eps] : e \in existing},
                         !.updated = @ + 1]
                 ELSE [acc EXCEPT
                         !.pending = Append(@, Earnings(d.next_id + Len(@), folder.id, ticker,
                                                        row.fiscal_quarter, row.estimate_eps,
                                                        row.actual_eps)),
                         !.created = @ + 1]
         IN  ImportLoop(d, folder, Tail(csv), next)

\* POST /folders/{folder_id}/earnings/import
import_earnings_csv(d, folder_id, csv) ==
    LET folder == FolderById(d, folder_id)
    IN  IF folder = {} THEN [error |-> "404", db |-> d, created |-> 0, updated |-> 0]
        ELSE LET acc == ImportLoop(d, CHOOSE f \in folder : TRUE, csv,
                                   Loop(d.earnings, <<>>, 0, 0, 0))
                 c == CommitEarnings(d, acc.rows, acc.pending)
             IN  [error |-> c.error, db |-> c.db, created |-> acc.created,
                  updated |-> acc.updated]

\* The two loops of fetch_earnings, over data["quarterly"] and then
\* data["annual"]: periods is the sequence of the period labels.
RECURSIVE FetchLoop(_, _, _, _, _)
FetchLoop(d, folder_id, ticker, periods, acc) ==
    IF periods = <<>> THEN acc
    ELSE LET period == Head(periods)
             existing == ExistingEarnings(acc.rows, folder_id, ticker, period)
             next ==
                 IF existing # {}
                 THEN [acc EXCEPT
                         !.rows = (@ \ existing) \cup {[e EXCEPT !.actual_eps = 3] : e \in existing},
                         !.updated = @ + 1]
                 ELSE [acc EXCEPT
                         !.pending = Append(@, Earnings(d.next_id + Len(@), folder_id, ticker,
                                                        period, None, 3)),
                         !.created = @ + 1]
         IN  FetchLoop(d, folder_id, ticker, Tail(periods), next)

\* POST /folders/{folder_id}/earnings/fetch
fetch_earnings(d, folder_id, ticker, data) ==
    LET folder == FolderById(d, folder_id)
        ticker_upper == upper(ticker)
    IN  IF folder = {} THEN [error |-> "404", db |-> d, created |-> 0, updated |-> 0]
        ELSE IF \A f \in folder : ticker_upper \notin folder_tickers(f)
        THEN [error |-> "400 ticker", db |-> d, created |-> 0, updated |-> 0]
        ELSE LET acc == FetchLoop(d, folder_id, ticker_upper, data.quarterly \o data.annual,
                                  Loop(d.earnings, <<>>, 0, 0, 0))
                 c == CommitEarnings(d, acc.rows, acc.pending)
             IN  [error |-> c.error, db |-> c.db, created |-> acc.created,
                  updated |-> acc.updated]

\* The requests.
EarningsCreate ==
    [folder_id : {1, 2, 3}, ticker : {"a", "B"}, fiscal_quarter : FiscalQuarters,
     estimate_eps : {1}, actual_eps : {None}]

EarningsUpdates ==
    {[f \in F |-> IF f = "fiscal_quarter" THEN "2024-Q4" ELSE 2] :
        F \in SUBSET {"actual_eps", "fiscal_quarter"}}

\* The most rows of a CSV file, and the most quarters the provider answers.
MaxRows == 2

CsvRows ==
    [ticker : {"a"}, fiscal_quarter : FiscalQuarters, estimate_eps : {None}, actual_eps : {2}]
        \cup {[ticker |-> "B", fiscal_quarter |-> "2024-Q3", estimate_eps |-> None, actual_eps |-> 2],
              [ticker |-> "", fiscal_quarter |-> "", estimate_eps |-> None, actual_eps |-> None]}

CsvFiles == UNION {[1..n -> CsvRows] : n \in 0..MaxRows}

ProviderEarnings ==
    [quarterly : UNION {[1..n -> FiscalQuarters] : n \in 0..MaxRows}, annual : {<<>>, <<"2024">>}]

InitEarnings ==
    /\ table = {}
    /\ ideas = <<>>
    /\ now = FirstTick
    /\ tz = 0
    /\ last = NoRequest
    /\ nops = 0
    /\ sess = Idle
    /\ db = [EmptyDb EXCEPT !.folders = {Folder(1, "SINGLE"), Folder(2, "PAIR")}]

CreateEarnings ==
    /\ nops < MaxOps
    /\ \E request \in EarningsCreate :
         LET r == create_earnings(db, request)
         IN  /\ db' = r.db
             /\ last' = Answered("create_earnings", None, request, NoValue, r.error)
    /\ nops' = nops + 1
    /\ UNCHANGED <<table, ideas, now, tz, sess>>

UpdateEarnings ==
    /\ nops < MaxOps
    /\ \E earnings_id \in 1..db.next_id, request \in EarningsUpdates :
         LET r == update_earnings(db, earnings_id, request)
         IN  /\ db' = r.db
             /\ last' = Answered("update_earnings", earnings_id, request, NoValue, r.error)
    /\ nops' = nops + 1
    /\ UNCHANGED <<table, ideas, now, tz, sess>>

ImportEarningsCsv ==
    /\ nops < MaxOps
    /\ \E folder_id \in {2, 3}, csv \in CsvFiles :
         LET r == import_earnings_csv(db, folder_id, csv)
         IN  /\ db' = r.db
             /\ last' = Answered("import_earnings", folder_id, Len(csv),
                                 [created |-> r.created, updated |-> r.updated], r.error)
    /\ nops' = nops + 1
    /\ UNCHANGED <<table, ideas, now, tz, sess>>

FetchEarnings ==
    /\ nops < MaxOps
    /\ \E folder_id \in {2, 3}, ticker \in {"a", "B"}, data \in ProviderEarnings :
         LET r == fetch_earnings(db, folder_id, ticker, data)
         IN  /\ db' = r.db
             /\ last' = Answered("fetch_earnings", folder_id, ticker,
                                 [created |-> r.created, updated |-> r.updated], r.error)
    /\ nops' = nops + 1
    /\ UNCHANGED <<table, ideas, now, tz, sess>>

NextEarnings ==
    \/ CreateEarnings
    \/ UpdateEarnings
    \/ ImportEarningsCsv
    \/ FetchEarnings

SpecEarnings == InitEarnings /\ [][NextEarnings]_vars

(***************************************************************************)
(* Deleting a folder (app/api/endpoints/folders.py).  The relationships of *)
(* Folder and of Idea are declared with cascade="all, delete-orphan": the  *)
(* session deletes the rows a deleted row owns.  The folders here are      *)
(* SINGLE and PAIR ones.                                                   *)
(***************************************************************************)
Guidance(id, folder_id, ticker) ==
    [id |-> id, folder_id |-> folder_id, ticker |-> ticker, period |-> "2024-Q4",
     metric |-> "EPS"]

\* An idea as a row of its folder: Idea.folder_id.
FolderIdea(id, folder_id, trade_type) ==
    [SnapshotIdea(trade_type) EXCEPT !.id = id] @@ [folder_id |-> folder_id]

\* Idea.price_snapshots is not cascaded.
KeepOrphanSnapshots(t, deleted) == t

\* Idea.price_snapshots, cascade="all, delete-orphan": the table without the
\* snapshots of the deleted ideas.
DeleteOrphanSnapshots(t, deleted) ==
    {r \in t : \A i \in 1..Len(deleted) : r.idea_id # deleted[i].id}

\* db.delete(folder) with the cascades of Folder.ideas, Folder.earnings and
\* Folder.guidance.
delete(d, ids, t, folder) ==
    LET owned(r) == r.folder_id = folder.id
        other(r) == r.folder_id # folder.id
    IN  [db |-> [d EXCEPT !.folders = @ \ {folder},
                          !.earnings = {r \in @ : other(r)},
                          !.guidance = {r \in @ : other(r)}],
         ideas |-> SelectSeq(ids, other),
         table |-> DeleteOrphanSnapshots(t, SelectSeq(ids, owned))]

\* DELETE /folders/{folder_id}
delete_folder(d, ids, t, folder_id) ==
    LET folder == FolderById(d, folder_id)
    IN  IF folder = {} THEN [error |-> "404", db |-> d, ideas |-> ids, table |-> t]
        ELSE [error |-> ""] @@ delete(d, ids, t, CHOOSE f \in folder : TRUE)

\* GET /folders/{folder_id}/earnings
list_earnings(d, folder_id) ==
    IF FolderById(d, folder_id) = {} THEN [error |-> "404", response |-> NoValue]
    ELSE [error |-> "", response |-> {r \in d.earnings : r.folder_id = folder_id}]

\* GET /folders/{folder_id}/guidance
list_guidance(d, folder_id) ==
    IF FolderById(d, folder_id) = {} THEN [error |-> "404", response |-> NoValue]
    ELSE [error |-> "", response |-> {r \in d.guidance : r.folder_id = folder_id}]

\* The rows the two folders may hold at the start.
EarningsRows ==
    {Earnings(1, 1, "A", "2024-Q3", 1, None), Earnings(2, 2, "A", "2024-Q3", 1, None),
     Earnings(3, 2, "B", "2024-Q3", 1, None)}

GuidanceRows == {Guidance(1, 1, "A"), Guidance(2, 2, "B")}

FolderIdeas == <<FolderIdea(1, 1, "LONG"), FolderIdea(2, 2, "PAIR_LONG_SHORT")>>

SnapshotRows ==
    {PriceSnapshot(1, EndOfDay(1), 1, None, "MANUAL", ""),
     PriceSnapshot(2, EndOfDay(1), 1, 1, "MANUAL", ""),
     PriceSnapshot(2, EndOfDay(MaxDay), 2, 1, "YFINANCE", "")}

\* What a folder owns: its earnings, guidance and ideas, and the snapshots
\* of its ideas.
Owned(d, ids, t, folder_id) ==
    [earnings |-> {r \in d.earnings : r.folder_id = folder_id},
     guidance |-> {r \in d.guidance : r.folder_id = folder_id},
     ideas |-> {ids[i] : i \in {j \in 1..Len(ids) : ids[j].folder_id = folder_id}},
     snapshots |-> {r \in t : \E i \in 1..Len(ids) :
                                  ids[i].folder_id = folder_id /\ ids[i].id = r.idea_id}]

InitFolders ==
    /\ \E present \in SUBSET {1, 2} :
         /\ ideas = SelectSeq(FolderIdeas, LAMBDA i : i.id \in present)
         /\ table \in SUBSET {r \in SnapshotRows : r.idea_id \in present}
    /\ now = FirstTick
    /\ tz = 0
    /\ last = NoRequest
    /\ nops = 0
    /\ sess = Idle
    /\ \E earnings \in SUBSET EarningsRows, guidance \in SUBSET GuidanceRows :
         db = [folders |-> {Folder(1, "SINGLE"), Folder(2, "PAIR")}, earnings |-> earnings,
               guidance |-> guidance, next_id |-> Cardinality(EarningsRows) + 1]

\* The record of the request keeps, for the properties, how many rows of each
\* kind the folder owned when the request came.
DeleteFolder ==
    /\ nops < MaxOps
    /\ \E folder_id \in {1, 2} :
         LET r == delete_folder(db, ideas, table, folder_id)
             owned == Owned(db, ideas, table, folder_id)
         IN  /\ db' = r.db
             /\ ideas' = r.ideas
             /\ table' = r.table
             /\ last' = Answered("delete_folder", None, folder_id,
                                 [f \in DOMAIN owned |-> Cardinality(owned[f])], r.error)
    /\ nops' = nops + 1
    /\ UNCHANGED <<now, tz, sess>>

ListEarnings ==
    /\ nops < MaxOps
    /\ \E folder_id \in {1, 2} :
         LET r == list_earnings(db, folder_id)
         IN  last' = Answered("list_earnings", None, folder_id, r.response, r.error)
    /\ nops' = nops + 1
    /\ UNCHANGED <<table, ideas, now, tz, sess, db>>

ListGuidance ==
    /\ nops < MaxOps
    /\ \E folder_id \in {1, 2} :
         LET r == list_guidance(db, folder_id)
         IN  last' = Answered("list_guidance", None, folder_id, r.response, r.error)
    /\ nops' = nops + 1
    /\ UNCHANGED <<table, ideas, now, tz, sess, db>>

NextFolders ==
    \/ DeleteFolder
    \/ ListEarnings
    \/ ListGuidance

SpecFolders == InitFolders /\ [][NextFolders]_vars

(***************************************************************************)
(* The formulas of PnLService called on their own: one call, on any        *)
(* prices, positive or not.                                                *)
(***************************************************************************)
CalcPrices == {-1, 0, 1, 2, 3}

\* The ideas calculate_idea_pnl may be handed.  entry_price_secondary is a
\* nullable column: create_idea stores no pair without it, a row written
\* otherwise may lack it.
CalcIdeas ==
    {Idea(1, tt, po, ep, es, size, tt = "PAIR_LONG_SHORT") :
        tt \in {"LONG", "SHORT"}, po \in {""}, ep \in Prices,
        es \in Prices \cup {None}, size \in Sizes}
    \cup {Idea(1, "PAIR_LONG_SHORT", po, ep, es, size, TRUE) :
        po \in PairOrientations, ep \in Prices,
        es \in Prices \cup {None}, size \in Sizes}

InitCalc ==
    /\ table = {}
    /\ \E idea \in CalcIdeas : ideas = [i \in {1} |-> idea]
    /\ now = FirstTick
    /\ tz = 0
    /\ last = NoRequest
    /\ nops = 0
    /\ sess = Idle
    /\ db = EmptyDb

\* What a call that returns value hands back.
Returned(value) == [error |-> "", value |-> value]

\* PnLService.calculate_long_pnl(entry_price, current_price)
CalcLong ==
    /\ nops = 0
    /\ \E entry_price \in CalcPrices, current_price \in CalcPrices :
         LET r == IF long_pnl_raises(entry_price, current_price)
                  THEN PnLValueError("Entry price must be positive")
                  ELSE Returned(calculate_long_pnl(entry_price, current_price))
         IN  last' = Answered("long", None, <<entry_price, current_price>>, r, r.error)
    /\ nops' = nops + 1
    /\ UNCHANGED <<table, ideas, now, tz, sess, db>>

\* PnLService.calculate_short_pnl(entry_price, current_price)
CalcShort ==
    /\ nops = 0
    /\ \E entry_price \in CalcPrices, current_price \in CalcPrices :
         LET r == IF short_pnl_raises(entry_price, current_price)
                  THEN PnLValueError("Entry price must be positive")
                  ELSE Returned(calculate_short_pnl(entry_price, current_price))
         IN  last' = Answered("short", None, <<entry_price, current_price>>, r, r.error)
    /\ nops' = nops + 1
    /\ UNCHANGED <<table, ideas, now, tz, sess, db>>

\* PnLService.calculate_log_return(entry_price, current_price)
CalcLog ==
    /\ nops = 0
    /\ \E entry_price \in CalcPrices, current_price \in CalcPrices :
         LET r == IF log_return_raises(entry_price, current_price)
                  THEN PnLValueError("Prices must be positive")
                  ELSE Returned(Ln(entry_price, current_price))
         IN  last' = Answered("log", None, <<entry_price, current_price>>, r, r.error)
    /\ nops' = nops + 1
    /\ UNCHANGED <<table, ideas, now, tz, sess, db>>

\* PnLService.calculate_pair_pnl_log(entry_long, current_long, entry_short,
\* current_short)
CalcPair ==
    /\ nops = 0
    /\ \E entry_long \in CalcPrices, current_long \in CalcPrices,
          entry_short \in CalcPrices, current_short \in CalcPrices :
         LET r == IF pair_pnl_raises(entry_long, current_long, entry_short, current_short)
                  THEN PnLValueError("All prices must be positive")
                  ELSE Returned(calculate_pair_pnl_log(entry_long, current_long,
                                                       entry_short, current_short))
         IN  last' = Answered("pair", None,
                              <<entry_long, current_long, entry_short, current_short>>,
                              r, r.error)
    /\ nops' = nops + 1
    /\ UNCHANGED <<table, ideas, now, tz, sess, db>>

\* PnLService.calculate_idea_pnl(idea, current_price_primary,
\* current_price_secondary); a current_price_secondary of None is an absent one.
CalcIdeaPnl(id) ==
    /\ nops = 0
    /\ \E current_price_primary \in CalcPrices, current_price_secondary \in CalcPrices :
         LET r == calculate_idea_pnl(ideas[id], current_price_primary,
                                     current_price_secondary)
         IN  last' = Answered("idea_pnl", id,
                              <<current_price_primary, current_price_secondary>>,
                              r, r.error)
    /\ nops' = nops + 1
    /\ UNCHANGED <<table, ideas, now, tz, sess, db>>

NextCalc ==
    \/ CalcLong
    \/ CalcShort
    \/ CalcLog
    \/ CalcPair
    \/ \E id \in DOMAIN ideas : CalcIdeaPnl(id)

SpecCalc == InitCalc /\ [][NextCalc]_vars

(***************************************************************************)
(* get_pnl_history called on its own: one call, on any list of at most     *)
(* MaxLen snapshots, in any order, of prices positive or not.              *)
(***************************************************************************)
HistTicks == {1, 2}
HistPrices == {-1, 0, 2}

HistIdeas ==
    {idea \in CalcIdeas :
        /\ idea.position_size = 0
        /\ idea.entry_price_primary = 1
        /\ idea.entry_price_secondary \in {None, 1}
        /\ ~is_pair(idea) => idea.entry_price_secondary = None}

\* The snapshots a list may hold; a price_secondary of None is an absent one.
HistSnapshots ==
    {PriceSnapshot(1, ts, pp, ps, "MANUAL", "") :
        ts \in HistTicks, pp \in HistPrices, ps \in HistPrices}

SnapshotLists == UNION {[1..n -> HistSnapshots] : n \in 0..MaxLen}

InitHistory ==
    /\ table = {}
    /\ \E idea \in HistIdeas : ideas = [i \in {1} |-> idea]
    /\ now = FirstTick
    /\ tz = 0
    /\ last = NoRequest
    /\ nops = 0
    /\ sess = Idle
    /\ db = EmptyDb

\* PnLService.get_pnl_history(idea, snapshots)
GetPnlHistory(id) ==
    /\ nops = 0
    /\ \E snapshots \in SnapshotLists :
         last' = Answered("history", id, snapshots,
                          get_pnl_history(ideas[id], snapshots), "")
    /\ nops' = nops + 1
    /\ UNCHANGED <<table, ideas, now, tz, sess, db>>

NextHistory == \E id \in DOMAIN ideas : GetPnlHistory(id)

SpecHistory == InitHistory /\ [][NextHistory]_vars

(***************************************************************************)
(* Properties of the snapshot manager, requests served one at a time.      *)
(***************************************************************************)
Count(t, idea_id) == Cardinality(SnapshotsOf(t, idea_id))

SameDay(r, q) == r.idea_id = q.idea_id /\ Date(r.timestamp) = Date(q.timestamp)

\* A request of kind op has just been served.
Served(op) == nops' = nops + 1 /\ last'.op = op

\* C1: a backfill that repeats the backfill served just before it (same
\* position, same range, same answers of the provider) succeeds, returns 0
\* and leaves the number of snapshots of the position as it was.
C1_BackfillTwiceAddsNothing ==
    (last.op = "backfill" /\ last.again) =>
        /\ last.error = ""
        /\ last.result = 0
        /\ Count(table, last.idea_id) = last.nb

\* The first backfill added snapshots, the second one has been served.
C1_Witness == last.op = "backfill" /\ last.again /\ last.nb > last.n0

\* C2 as claimed: at most one snapshot per calendar day and position.
C2_OnePerDay == \A r, q \in table : SameDay(r, q) => r = q

\* C2 as amended: a backfill keeps every stored snapshot and adds a snapshot
\* only on a calendar day that holds no other snapshot of the position, so
\* a series filled by backfills alone has at most one snapshot per day.
C2_BackfillKeepsOnePerDay ==
    [][Served("backfill") =>
          /\ table \subseteq table'
          /\ \A r \in table' \ table : \A q \in table' : SameDay(r, q) => q = r]_vars

\* A backfill has added snapshots to a series that already held some.
C2_Witness == last.op = "backfill" /\ last.result > 0 /\ last.nb > 0

\* C3: every snapshot of a pair has both prices; a manual snapshot of a pair
\* without a secondary price is rejected, a fetch with an unavailable leg
\* stores nothing, and a backfill of a pair creates at most as many
\* snapshots as there are days of its range with a close of both legs.
C3_NoOneLegged ==
    /\ \A r \in table :
           is_pair(ideas[r.idea_id]) =>
               r.price_primary # None /\ r.price_secondary # None
    /\ (last.op = "manual" /\ is_pair(ideas[last.idea_id]) /\ last.req[3] = None) =>
           /\ last.error = "ValueError"
           /\ Count(table, last.idea_id) = last.nb
    /\ (last.op = "fetch" /\ is_pair(ideas[last.idea_id])
            /\ (last.req[1] = None \/ last.req[2] = None)) =>
           /\ last.error = "Unavailable"
           /\ Count(table, last.idea_id) = last.nb
    /\ (last.op = "backfill" /\ is_pair(ideas[last.idea_id])) =>
           last.result <=
               Cardinality({d \in Days :
                   /\ last.req[1] <= d /\ d <= last.req[2]
                   /\ last.req[3]["primary"] /\ Close("primary", d) # None
                   /\ last.req[3]["secondary"] /\ Close("secondary", d) # None})

\* A pair has been backfilled over days 1 and 2, the secondary ticker having
\* no close on day 1: one snapshot was created.
C3_Witness ==
    /\ last.op = "backfill" /\ is_pair(ideas[last.idea_id])
    /\ last.req[1] = 1 /\ last.req[2] = 2
    /\ Close("primary", 1) # None /\ Close("secondary", 1) = None
    /\ last.result = 1

\* The dates for which a backfill of range start_date..end_date must create
\* a snapshot, given the table before it.
DatesToCreate(t, idea_id, start_date, end_date, ok) ==
    {d \in Days :
        /\ start_date <= d /\ d <= end_date
        /\ ok["primary"] /\ Close("primary", d) # None
        /\ \A r \in SnapshotsOf(t, idea_id) : Date(r.timestamp) # d
        /\ is_pair(ideas[idea_id]) =>
               ok["secondary"] /\ Close("secondary", d) # None}

\* C4: a backfill succeeds and adds exactly one snapshot for each date of
\* the primary series that has no snapshot yet and (for a pair) a secondary
\* close, with the end of that day as timestamp, the closes as prices and
\* the provider as source; it changes nothing else and returns the number
\* of snapshots added.
C4_BackfillCreatesExactly ==
    [][Served("backfill") =>
          LET id == last'.idea_id
              dates == DatesToCreate(table, id, last'.req[1], last'.req[2], last'.req[3])
          IN  /\ last'.error = ""
              /\ table \subseteq table'
              /\ table' \ table =
                     {PriceSnapshot(id, EndOfDay(d), Close("primary", d),
                                    IF is_pair(ideas[id]) THEN Close("secondary", d) ELSE None,
                                    "YFINANCE", "") : d \in dates}
              /\ last'.result = Cardinality(table' \ table)
              /\ last'.result = Cardinality(dates)]_vars

\* A pair has been backfilled over days 1 and 2: day 1 was skipped for its
\* missing secondary close and the snapshot of day 2 was still created.
C4_Witness ==
    /\ last.op = "backfill" /\ is_pair(ideas[last.idea_id])
    /\ last.req[1] = 1 /\ last.req[2] = 2 /\ last.result = 1
    /\ \E r \in table : r.timestamp = EndOfDay(2) /\ r.source = "YFINANCE"

Overlap(s1, e1, s2, e2) == s1 <= e2 /\ s2 <= e1 /\ s1 <= e1 /\ s2 <= e2

\* C5: when a backfill of range A has been served, a backfill of any range B
\* (same position, same answers of the provider) then succeeds, adds no
\* snapshot on a date that already has one, and leaves the same set of
\* snapshot dates as the backfill of B followed by that of A would have
\* left from the table before A.
C5_BackfillOrderIndependent ==
    (last.op = "backfill" /\ last.error = "") =>
        \A sB, eB \in Days :
            LET id == last.idea_id
                idea == ideas[id]
                ok == last.req[3]
                before == table \ last.snapshot
                ab == backfill_prices_idempotent(table, id, idea, sB, eB, ok)
                b == backfill_prices_idempotent(before, id, idea, sB, eB, ok)
                ba == backfill_prices_idempotent(b.table, id, idea,
                                                 last.req[1], last.req[2], ok)
            IN  /\ ab.error = "" /\ b.error = "" /\ ba.error = ""
                /\ \A r \in ab.table \ table :
                       Date(r.timestamp) \notin get_existing_snapshot_dates(table, id)
                /\ get_existing_snapshot_dates(ab.table, id)
                       = get_existing_snapshot_dates(ba.table, id)

\* A backfill of range A has created snapshots and a range B that overlaps A
\* still has dates to create.
C5_Witness ==
    /\ last.op = "backfill" /\ last.result > 0
    /\ \E sB, eB \in Days :
           /\ Overlap(last.req[1], last.req[2], sB, eB)
           /\ <<sB, eB>> # <<last.req[1], last.req[2]>>
           /\ backfill_prices_idempotent(table, last.idea_id, ideas[last.idea_id],
                                         sB, eB, last.req[3]).result > 0

\* C6 as claimed: a successful fetch that follows a successful fetch of the
\* same position on the same day (the same local date and the same UTC
\* date) creates no snapshot: the two calls leave at most one snapshot more
\* than there was before the first.
C6_SecondFetchUpdatesInPlace ==
    (last.op = "fetch" /\ last.again /\ last.error = "") =>
        /\ ~last.created
        /\ Count(table, last.idea_id) = last.nb
        /\ last.nb <= last.n0 + 1

\* C7: a manual snapshot that passes the validation (a pair comes with its
\* secondary price) and whose timestamp is that of a stored snapshot of the
\* position ends in the storage layer's IntegrityError and changes nothing;
\* with any other timestamp it succeeds and adds exactly that snapshot.
C7_ManualCollision ==
    [][(Served("manual") /\ ~ManualRejected(ideas[last'.idea_id], last'.req[3])) =>
          LET id == last'.idea_id
              snapshot == PriceSnapshot(id, last'.req[1], last'.req[2], last'.req[3],
                                        "MANUAL", last'.req[4])
          IN  IF \E r \in SnapshotsOf(table, id) : r.timestamp = last'.req[1]
              THEN last'.error = "IntegrityError" /\ table' = table
              ELSE /\ last'.error = ""
                   /\ table' = table \cup {snapshot}
                   /\ Count(table', id) = Count(table, id) + 1
                   /\ last'.snapshot = {snapshot}]_vars

\* A manual snapshot has hit the timestamp of a stored snapshot.
C7_Witness ==
    /\ last.op = "manual" /\ last.error = "IntegrityError"
    /\ \E r \in table : r.idea_id = last.idea_id /\ r.timestamp = last.req[1]

(***************************************************************************)
(* Properties of the snapshot manager with concurrent writers.             *)
(***************************************************************************)
\* The snapshots worker w is about to commit, computed from the dates it read.
Pending(w) ==
    LET s == sess[w]
        idea == ideas[s.idea_id]
    IN  BackfillLoop(s.idea_id, idea, s.existing_dates,
            fetch_historical_prices("primary", s.start_date, s.end_date, s.ok["primary"]),
            IF is_pair(idea)
            THEN fetch_historical_prices("secondary", s.start_date, s.end_date,
                                         s.ok["secondary"])
            ELSE <<>>)

KeyTaken(t, row) == \E r \in t : Key(r) = Key(row)

\* C8: whatever the interleaving of two writers of one position (backfill
\* with backfill, backfill with a manual snapshot), no two stored snapshots
\* ever share (idea_id, timestamp); a backfill that commits a snapshot whose
\* key another writer has stored since it read the existing dates gets an
\* IntegrityError and stores nothing, and so does a manual snapshot whose
\* key is stored; a writer whose keys are all free stores all its snapshots.
C8_ConstraintArbitrates ==
    [][/\ \A r, q \in table' : Key(r) = Key(q) => r = q
       /\ \A w \in Workers :
             (sess[w].pc = "backfill" /\ sess'[w].pc = "idle") =>
                 LET batch == Pending(w)
                     rows == {batch[i] : i \in 1..Len(batch)}
                 IN  IF \E row \in rows : KeyTaken(table, row)
                     THEN last'.error = "IntegrityError" /\ table' = table
                     ELSE /\ last'.error = ""
                          /\ table' = table \cup rows
                          /\ last'.result = Cardinality(rows)
       /\ (Served("manual") /\ last'.error # "ValueError") =>
             LET row == PriceSnapshot(last'.idea_id, last'.req[1], last'.req[2],
                                      last'.req[3], "MANUAL", last'.req[4])
             IN  IF KeyTaken(table, row)
                 THEN last'.error = "IntegrityError" /\ table' = table
                 ELSE last'.error = "" /\ table' = table \cup {row}
      ]_vars

\* A backfill has lost the race: its commit was refused, and the snapshot
\* stored at the key is the other writer's.
C8_Witness ==
    /\ last.op = "backfill"
    /\ last.error = "IntegrityError"
    /\ table # {}

(***************************************************************************)
(* Properties of the P&L of a closed idea.                                 *)
(***************************************************************************)
\* Closed with its exit prices set: the primary one, and the secondary one
\* for a pair.
ClosedWithExitPrices(idea) ==
    /\ is_closed(idea)
    /\ idea.exit_price_primary # None
    /\ is_pair(idea) => idea.exit_price_secondary # None

PnlFigures(r) ==
    <<r.pnl_percent, r.pnl_absolute, r.pnl_primary_leg, r.pnl_secondary_leg,
      r.simple_spread>>

\* The P&L of the idea at its exit prices.
Realized(idea) ==
    calculate_idea_pnl(idea, idea.exit_price_primary, idea.exit_price_secondary)

\* The return of the idea at its exit prices, written out.
RealizedPercent(idea) ==
    LET e1 == idea.entry_price_primary
        e2 == idea.entry_price_secondary
        x1 == idea.exit_price_primary
        x2 == idea.exit_price_secondary
    IN  IF idea.trade_type = "LONG" THEN Frac(x1 - e1, e1)
        ELSE IF idea.trade_type = "SHORT" THEN Frac(e1 - x1, e1)
        ELSE IF idea.pair_orientation = "LONG_PRIMARY_SHORT_SECONDARY"
        THEN [minuend |-> Ln(e1, x1), subtrahend |-> Ln(e2, x2)]
        ELSE [minuend |-> Ln(e2, x2), subtrahend |-> Ln(e1, x1)]

\* response is the answer of get_pnl_response for a closed idea, and it is
\* the realized P&L.
IsRealizedPnl(response, idea) ==
    /\ response.error = ""
    /\ response.is_realized
    /\ PnlFigures(response) = PnlFigures(Realized(idea))
    /\ response.pnl_percent = RealizedPercent(idea)
    /\ response.current_price_primary = idea.exit_price_primary
    /\ is_pair(idea) => response.current_price_secondary = idea.exit_price_secondary

AttachedIsRealized(response, idea) ==
    response.pnl_percent # NoValue =>
        /\ response.pnl_percent = Realized(idea).pnl_percent
        /\ response.pnl_absolute = Realized(idea).pnl_absolute

\* C10: for a closed idea every current-P&L figure returned is computed from
\* the stored exit prices and not from the live prices: the response of
\* GET /ideas/{id}/pnl, and the pnl_percent / pnl_absolute attached to the
\* idea by GET /ideas/{id} and by GET /ideas with include_pnl.
C10_ClosedNeverMarkedToMarket ==
    /\ (last.op = "pnl" /\ last.error = "" /\ ClosedWithExitPrices(ideas[last.idea_id])) =>
          PnlFigures(last.response) = PnlFigures(Realized(ideas[last.idea_id]))
    /\ (last.op = "get" /\ ClosedWithExitPrices(ideas[last.idea_id])) =>
          AttachedIsRealized(last.response, ideas[last.idea_id])
    /\ last.op = "list" =>
          \A id \in DOMAIN ideas :
              ClosedWithExitPrices(ideas[id]) => AttachedIsRealized(last.response[id], ideas[id])

(***************************************************************************)
(* Properties of the formulas.                                             *)
(***************************************************************************)
PositivePrices == {p \in CalcPrices : p > 0}

\* -a
FracNeg(a) == Frac(-a.num, a.den)

\* -(a - b) for two log returns: b - a.
LogDiffNeg(d) == [minuend |-> d.subtrahend, subtrahend |-> d.minuend]

\* C13 as claimed: a call of calculate_long_pnl, calculate_short_pnl,
\* calculate_log_return or calculate_pair_pnl_log with any of its prices
\* zero or negative raises (ValueError) and returns no value.
C13_NonPositivePriceRaises ==
    (/\ last.op \in {"long", "short", "log", "pair"}
     /\ \E i \in 1..Len(last.req) : last.req[i] <= 0)
        => last.error = "ValueError"

\* C14 as claimed: for some positive entry price (the entry prices of the
\* stored ideas among them) and some positive current price the long return
\* is not the exact negation of the short return.
C14_LongIsNotMinusShort ==
    \E e \in PositivePrices \cup {ideas[id].entry_price_primary : id \in DOMAIN ideas},
       c \in PositivePrices :
        calculate_long_pnl(e, c) # FracNeg(calculate_short_pnl(e, c))

\* C14, amended: for every positive entry price and every current price the
\* long return is exactly the negation of the short return, in every call
\* made and for every pair of prices.
C14_LongIsMinusShort ==
    /\ \A e \in PositivePrices, c \in CalcPrices :
          calculate_long_pnl(e, c) = FracNeg(calculate_short_pnl(e, c))
    /\ (last.op = "long" /\ last.error = "") =>
          last.response.value = FracNeg(calculate_short_pnl(last.req[1], last.req[2]))
    /\ (last.op = "short" /\ last.error = "") =>
          last.response.value = FracNeg(calculate_long_pnl(last.req[1], last.req[2]))

\* The short return of a price move has been computed: positive prices, the
\* current one away from the entry one.
C14_Witness ==
    /\ last.op = "short" /\ last.error = ""
    /\ last.req[2] > 0 /\ last.req[1] # last.req[2]
    /\ last.response.value # Dec(0)

\* C15: for every entry > 0, calculate_long_pnl is (current - entry) / entry,
\* positive exactly when current > entry; calculate_short_pnl is
\* (entry - current) / entry, positive exactly when current < entry; both
\* are 0 when current = entry.
C15_ReturnFormulas ==
    /\ (last.op = "long" /\ last.req[1] > 0) =>
          LET e == last.req[1]
              c == last.req[2]
          IN  /\ last.error = ""
              /\ last.response.value = Frac(c - e, e)
              /\ last.response.value.num > 0 <=> c > e
              /\ c = e => last.response.value = Dec(0)
    /\ (last.op = "short" /\ last.req[1] > 0) =>
          LET e == last.req[1]
              c == last.req[2]
          IN  /\ last.error = ""
              /\ last.response.value = Frac(e - c, e)
              /\ last.response.value.num > 0 <=> c < e
              /\ c = e => last.response.value = Dec(0)

\* The long return of a rise has been computed.
C15_Witness ==
    /\ last.op = "long" /\ last.error = ""
    /\ last.req[1] > 0 /\ last.req[2] > last.req[1]

\* The idea with its pair orientation switched.
Switched(idea) ==
    [idea EXCEPT !.pair_orientation =
        IF @ = "LONG_PRIMARY_SHORT_SECONDARY" THEN "SHORT_PRIMARY_LONG_SECONDARY"
        ELSE "LONG_PRIMARY_SHORT_SECONDARY"]

\* calculate_idea_pnl has answered for a pair, all four prices positive.
PairComputed ==
    /\ last.op = "idea_pnl"
    /\ is_pair(ideas[last.idea_id])
    /\ ideas[last.idea_id].entry_price_secondary > 0
    /\ last.req[1] > 0 /\ last.req[2] > 0

\* C16: for a pair with all prices positive, in both orientations
\* pnl_primary_leg is the log return of the primary ticker and
\* pnl_secondary_leg that of the secondary ticker; pnl_percent is the log
\* return of the long leg minus that of the short leg; switching the
\* orientation negates pnl_percent and leaves the two leg fields unchanged.
C16_PairLegs ==
    PairComputed =>
        LET idea == ideas[last.idea_id]
            r == last.response
            primary == Ln(idea.entry_price_primary, last.req[1])
            secondary == Ln(idea.entry_price_secondary, last.req[2])
            other == calculate_idea_pnl(Switched(idea), last.req[1], last.req[2])
        IN  /\ r.error = ""
            /\ r.pnl_primary_leg = primary
            /\ r.pnl_secondary_leg = secondary
            /\ r.pnl_percent =
                   IF idea.pair_orientation = "LONG_PRIMARY_SHORT_SECONDARY"
                   THEN [minuend |-> primary, subtrahend |-> secondary]
                   ELSE [minuend |-> secondary, subtrahend |-> primary]
            /\ other.error = ""
            /\ other.pnl_percent = LogDiffNeg(r.pnl_percent)
            /\ other.pnl_primary_leg = r.pnl_primary_leg
            /\ other.pnl_secondary_leg = r.pnl_secondary_leg

\* A pair that is short its primary ticker has been computed, the two legs
\* having moved differently.
C16_Witness ==
    /\ PairComputed
    /\ ideas[last.idea_id].pair_orientation = "SHORT_PRIMARY_LONG_SECONDARY"
    /\ last.response.pnl_primary_leg # last.response.pnl_secondary_leg

\* C17: calculate_idea_pnl on a pair whose entry_price_secondary or whose
\* current secondary price is absent raises the error of the missing
\* secondary price and returns no result; for a LONG or SHORT idea an
\* absent secondary price is no error.
C17_MissingSecondary ==
    last.op = "idea_pnl" =>
        LET idea == ideas[last.idea_id]
        IN  /\ (is_pair(idea) /\ (idea.entry_price_secondary = None \/ last.req[2] = None)) =>
                  /\ last.response.error = "ValueError"
                  /\ last.response.detail = "Secondary prices required for pair trade P&L"
                  /\ DOMAIN last.response = {"error", "detail"}
            /\ (~is_pair(idea) /\ last.req[2] = None) =>
                  /\ last.response.error = ""
                  /\ last.response.pnl_percent # NoValue

\* A pair with both entry prices has been computed without a current
\* secondary price.
C17_Witness ==
    /\ last.op = "idea_pnl"
    /\ is_pair(ideas[last.idea_id])
    /\ ideas[last.idea_id].entry_price_secondary # None
    /\ last.req[1] > 0 /\ last.req[2] = None
    /\ last.error = "ValueError"

\* pnl_percent * position_size
TimesSize(pnl_percent, position_size, pair) ==
    IF pair THEN [factor |-> pnl_percent, times |-> position_size]
    ELSE Frac(pnl_percent.num * position_size, pnl_percent.den)

\* C18: for every trade type pnl_absolute is pnl_percent * position_size
\* when position_size is not zero and is absent when position_size is zero
\* or absent; for LONG and SHORT the two leg fields and simple_spread are
\* absent.
C18_PnlAbsolute ==
    (last.op = "idea_pnl" /\ last.error = "") =>
        LET idea == ideas[last.idea_id]
            r == last.response
        IN  /\ idea.position_size # 0 =>
                  r.pnl_absolute = TimesSize(r.pnl_percent, idea.position_size, is_pair(idea))
            /\ idea.position_size = 0 => r.pnl_absolute = NoValue
            /\ ~is_pair(idea) =>
                  /\ r.pnl_primary_leg = NoValue
                  /\ r.pnl_secondary_leg = NoValue
                  /\ r.simple_spread = NoValue

\* A LONG idea with a position size has been computed at a price away from
\* its entry price.
C18_Witness ==
    /\ last.op = "idea_pnl" /\ last.error = ""
    /\ ideas[last.idea_id].trade_type = "LONG"
    /\ ideas[last.idea_id].position_size # 0
    /\ last.response.pnl_percent # Dec(0)
    /\ last.response.pnl_absolute # NoValue

(***************************************************************************)
(* Properties of get_pnl_history.                                          *)
(***************************************************************************)
\* What identifies an observation, and the point it yields.
Observation(x) == <<x.timestamp, x.price_primary, x.price_secondary>>

\* How many entries of the sequence seq are the observation o.
Occurrences(seq, o) == Cardinality({i \in 1..Len(seq) : Observation(seq[i]) = o})

\* The observation holds a zero or negative price.
NonPositivePrice(snapshot) == snapshot.price_primary <= 0 \/ snapshot.price_secondary < 0

\* calculate_idea_pnl succeeds on the observation.
Computes(idea, snapshot) ==
    calculate_idea_pnl(idea, snapshot.price_primary, snapshot.price_secondary).error = ""

\* C11 as claimed: for every trade type, an observation with a zero or
\* negative price yields no point of the history, and every other
\* observation on which the computation succeeds yields its own point.
C11_NonPositiveExcluded ==
    last.op = "history" =>
        LET idea == ideas[last.idea_id]
            history == last.response.history
        IN  /\ \A i \in 1..Len(history) : ~NonPositivePrice(history[i])
            /\ \A i \in 1..Len(last.req) :
                  (~NonPositivePrice(last.req[i]) /\ Computes(idea, last.req[i])) =>
                      Occurrences(history, Observation(last.req[i]))
                          = Occurrences(last.req, Observation(last.req[i]))

\* C12: get_pnl_history never fails; its points are in ascending order of
\* timestamp whatever the order of the observations given; there is exactly
\* one point per observation on which calculate_idea_pnl succeeds, carrying
\* the return computed from it, and none for an observation on which it
\* raises.
C12_HistorySortedAndPartial ==
    last.op = "history" =>
        LET idea == ideas[last.idea_id]
            history == last.response.history
        IN  /\ last.response.error = ""
            /\ \A i, j \in 1..Len(history) :
                  i < j => history[i].timestamp <= history[j].timestamp
            /\ Len(history) = Cardinality({i \in 1..Len(last.req) : Computes(idea, last.req[i])})
            /\ \A i \in 1..Len(last.req) :
                  Occurrences(history, Observation(last.req[i]))
                      = IF Computes(idea, last.req[i])
                        THEN Occurrences(last.req, Observation(last.req[i]))
                        ELSE 0
            /\ \A i \in 1..Len(history) :
                  history[i].pnl_percent
                      = calculate_idea_pnl(idea, history[i].price_primary,
                                           history[i].price_secondary).pnl_percent

\* Three observations were given latest first, the middle one not
\* computable: the history holds the two others.
C12_Witness ==
    /\ last.op = "history"
    /\ Len(last.req) = 3
    /\ last.req[1].timestamp > last.req[3].timestamp
    /\ ~Computes(ideas[last.idea_id], last.req[2])
    /\ Len(last.response.history) = 2

(***************************************************************************)
(* Properties of the life of an idea.                                      *)
(***************************************************************************)
\* What is fixed at creation.
CreationFields(idea) ==
    <<idea.trade_type, idea.pair_orientation, idea.entry_price_primary, idea.entry_price_secondary>>

\* The exit fields.
ExitFields(idea) == <<idea.exit_price_primary, idea.exit_price_secondary, idea.exit_date>>

\* C19: no update, status change or close, accepted or rejected, changes
\* the trade type, the pair orientation or an entry price of an idea: after
\* any sequence of them they are those given at creation.
C19_CreationFieldsFrozen ==
    [][\A id \in DOMAIN ideas : CreationFields(ideas'[id]) = CreationFields(ideas[id])]_vars

\* A closed idea has just been sent a PUT whose body asks for another entry
\* price and another trade type.
C19_Witness ==
    /\ last.op = "update"
    /\ {"entry_price_primary", "trade_type"} \subseteq DOMAIN last.req
    /\ last.req["entry_price_primary"] # ideas[last.idea_id].entry_price_primary
    /\ last.req["trade_type"] # ideas[last.idea_id].trade_type
    /\ is_closed(ideas[last.idea_id])

\* C20 as claimed: once a close has set the exit fields of an idea, no
\* update, status change or close changes them.
C20_ExitFieldsSetOnce ==
    [][\A id \in DOMAIN ideas :
          ideas[id].exit_price_primary # None => ExitFields(ideas'[id]) = ExitFields(ideas[id])]_vars

\* C21 as claimed: in every state an idea has its exit price and its exit
\* date exactly when it is closed (status CLOSED or KILLED), and a pair has
\* its secondary exit price exactly when it is closed.
C21_ExitFieldsIffClosed ==
    \A id \in DOMAIN ideas :
        LET idea == ideas[id]
        IN  /\ idea.exit_price_primary # None <=> is_closed(idea)
            /\ idea.exit_date # None <=> is_closed(idea)
            /\ is_pair(idea) => (idea.exit_price_secondary # None <=> is_closed(idea))

(***************************************************************************)
(* Properties of the creation of an idea.                                  *)
(***************************************************************************)
\* C22 as claimed: every idea created has the trade parameters of its
\* type: a pair has both entry prices and an orientation, a LONG or SHORT
\* idea has no secondary entry price and no orientation.
C22_TradeParameters ==
    \A id \in DOMAIN ideas :
        LET idea == ideas[id]
        IN  IF is_pair(idea)
            THEN /\ idea.entry_price_primary # None
                 /\ idea.entry_price_secondary # None
                 /\ idea.pair_orientation # ""
            ELSE /\ idea.entry_price_secondary = None
                 /\ idea.pair_orientation = ""

BackfillUnavailable(idea, start_date, end_date, ok) ==
    \/ fetch_historical_prices("primary", start_date, end_date, ok["primary"]) = <<>>
    \/ /\ is_pair(idea)
       /\ fetch_historical_prices("secondary", start_date, end_date, ok["secondary"]) = <<>>

\* The provider failed, or had nothing, for a ticker the fetch needs.
FetchUnavailable(idea, cp, cs) == cp = None \/ (is_pair(idea) /\ cs = None)

\* C24: when the provider fails or has nothing for the primary ticker, or
\* for the secondary ticker of a pair, the backfill returns 0 and the fetch
\* returns no snapshot, neither raises, and the snapshots stored are those
\* stored before.
C24_ProviderFailureIsQuiet ==
    /\ last.op = "backfill" /\ BackfillUnavailable(ideas[last.idea_id], last.req[1],
                                                   last.req[2], last.req[3]) =>
           /\ last.result = 0
           /\ last.error = ""
           /\ last.snapshot = {}
           /\ Count(table, last.idea_id) = last.nb
    /\ last.op = "fetch" /\ FetchUnavailable(ideas[last.idea_id], last.req[1], last.req[2]) =>
           /\ last.error = "Unavailable"
           /\ last.snapshot = {}
           /\ ~last.created
           /\ Count(table, last.idea_id) = last.nb

\* A fetch for a pair that has snapshots got the primary price and not the
\* secondary one.
C24_Witness ==
    /\ last.op = "fetch"
    /\ is_pair(ideas[last.idea_id])
    /\ last.req[1] # None
    /\ last.req[2] = None
    /\ last.nb > 0

(***************************************************************************)
(* Properties of concurrent fetches.                                       *)
(***************************************************************************)
\* The snapshots of the idea on the date.
OnDate(t, idea_id, d) == {r \in SnapshotsOf(t, idea_id) : Date(r.timestamp) = d}

\* C28 as claimed: after a fetch has stored today's snapshot, whatever
\* other fetch of the same idea ran at the same time, the idea has one
\* snapshot for that day.
C28_DailyDedupUnderConcurrency ==
    (last.op = "fetch" /\ last.error = "" /\ Date(last.req[4]) = last.req[3]) =>
        Cardinality(OnDate(table, last.idea_id, last.req[3])) <= 1

(***************************************************************************)
(* Properties of the snapshot manager serving two ideas.                   *)
(***************************************************************************)
\* Worker w goes from one position of its call to another.
Moves(w, from, to) == sess[w].pc = from /\ sess'[w].pc = to

\* What the calls on idea id read and write in a step is what they would
\* read and write if the table held the snapshots of this idea only.
OwnRowsOnly(id) ==
    LET idea == ideas[id]
        own == SnapshotsOf(table, id)
    IN  /\ \A w \in Workers :
            /\ Moves(w, "idle", "backfill") /\ sess'[w].idea_id = id =>
                   sess'[w].existing_dates = {Date(r.timestamp) : r \in own}
            /\ Moves(w, "idle", "fetch") /\ sess'[w].idea_id = id =>
                   sess'[w].existing \in FirstOf(TodaySnapshots(own, id, sess'[w].today))
            /\ Moves(w, "backfill", "idle") /\ sess[w].idea_id = id =>
                   SnapshotsOf(table', id)
                       = BackfillWrite(own, id, idea, sess[w].existing_dates,
                                       sess[w].start_date, sess[w].end_date, sess[w].ok).table
            /\ Moves(w, "fetch", "idle") /\ sess[w].idea_id = id =>
                   SnapshotsOf(table', id)
                       = FetchWrite(own, id, FetchPrices(idea, sess[w].cp, sess[w].cs),
                                    {r \in own : \E e \in sess[w].existing : Key(r) = Key(e)},
                                    now').table
        /\ nops' = nops + 1 /\ last'.op = "manual" /\ last'.idea_id = id =>
               SnapshotsOf(table', id)
                   = add_manual_snapshot(own, id, idea, last'.req[1], last'.req[2],
                                         last'.req[3], last'.req[4]).table

\* C25: in every interleaving of the calls on two ideas, the snapshots of an
\* idea change only in a step that completes a call on this idea, and every
\* call on it reads and writes what it would if the other idea had no
\* snapshot and no call: the series of an idea is the one it would have
\* without the calls on the other.
C25_PositionsIndependent ==
    [][\A id \in DOMAIN ideas :
          /\ SnapshotsOf(table', id) # SnapshotsOf(table, id) =>
                 nops' = nops + 1 /\ last'.idea_id = id
          /\ OwnRowsOnly(id)]_vars

\* The two ideas have a snapshot each with the same timestamp, the second
\* one stored by the last call.
C25_Witness ==
    /\ last.idea_id = 2
    /\ last.snapshot # {}
    /\ \E r \in SnapshotsOf(table, 1) : \E q \in last.snapshot : r.timestamp = q.timestamp

(***************************************************************************)
(* Properties of the writers of the snapshot manager.                      *)
(***************************************************************************)
\* C29: a backfill, like a manual snapshot, only adds rows: the rows it
\* stores are new ones and every snapshot stored before the call is stored
\* after it, unchanged, whatever its source and its date.  (The rows before
\* the call are those of the table that the call did not store; they are as
\* many as before exactly when none was replaced or removed.)
C29_BackfillOnlyAdds ==
    last.op \in {"backfill", "manual"} =>
        /\ last.snapshot \subseteq table
        /\ Count(table \ last.snapshot, last.idea_id) = last.nb
        /\ last.op = "backfill" =>
               \A r \in last.snapshot :
                   r.source = "YFINANCE" /\ r.timestamp = BackfillTimestamp(Date(r.timestamp))

\* A backfill has stored snapshots over a range that holds a MANUAL one,
\* which is still there.
C29_Witness ==
    /\ last.op = "backfill"
    /\ last.result > 0
    /\ \E r \in table :
          /\ r.source = "MANUAL"
          /\ Date(r.timestamp) >= last.req[1]
          /\ Date(r.timestamp) <= last.req[2]

\* C30: a backfill stores its batch in one commit: when the commit fails
\* none of its snapshots is stored and the snapshots of the idea are those
\* of before; when it succeeds all the snapshots it counts are stored.
C30_BatchIsAtomic ==
    last.op = "backfill" =>
        IF last.error # ""
        THEN /\ last.snapshot = {}
             /\ Count(table, last.idea_id) = last.nb
        ELSE /\ Cardinality(last.snapshot) = last.result
             /\ Count(table, last.idea_id) = last.nb + last.result

\* The commit of a backfill of two days of a LONG idea has failed on the
\* snapshot another worker stored meanwhile: that one is the only one.
C30_Witness ==
    /\ last.op = "backfill"
    /\ last.error = "IntegrityError"
    /\ ~is_pair(ideas[last.idea_id])
    /\ last.req[1] = 1
    /\ last.req[2] = 2
    /\ Count(table, last.idea_id) = 1

(***************************************************************************)
(* Properties of the earnings records.                                     *)
(***************************************************************************)
\* The records of the table have distinct keys.
UniqueEarnings == \A e, f \in db.earnings : EarningsKey(e) = EarningsKey(f) => e = f

\* A create_earnings served in this step, for a key that a record has, was
\* refused and has changed nothing; for a free key in a folder that has the
\* ticker it has stored the record.
CreateChecksKey ==
    nops' = nops + 1 /\ last'.op = "create_earnings" =>
        LET request == last'.req
            taken == \E e \in db.earnings :
                         EarningsKey(e) = <<request.folder_id, upper(request.ticker),
                                            request.fiscal_quarter>>
        IN  /\ taken => last'.error = "400 exists" /\ db' = db
            /\ last'.error = "" =>
                   /\ ~taken
                   /\ db.earnings \subseteq db'.earnings
                   /\ Cardinality(db'.earnings) = Cardinality(db.earnings) + 1

\* C26: through create, update, CSV import and provider fetch the table
\* earnings never holds two records with one (folder_id, ticker,
\* fiscal_quarter), and a create for a key that a record has is refused and
\* leaves the table as it is.
C26_NoDuplicateEarnings == []UniqueEarnings /\ [][CreateChecksKey]_vars

\* A create has been refused for the key of a stored record, and an import
\* whose file held a key twice has failed.
C26_Witness ==
    /\ last.op = "create_earnings"
    /\ last.error = "400 exists"
    /\ \E e \in db.earnings :
          EarningsKey(e) = <<last.req.folder_id, upper(last.req.ticker), last.req.fiscal_quarter>>

(***************************************************************************)
(* Properties of the deletion of a folder.                                 *)
(***************************************************************************)
\* A delete_folder that succeeded in this step has left nothing the folder
\* owned and has left what every other folder owned as it was; the lists of
\* the folder's earnings and guidance now answer 404.
DeleteCascades ==
    nops' = nops + 1 /\ last'.op = "delete_folder" /\ last'.error = "" =>
        LET folder_id == last'.req
            empty == [earnings |-> {}, guidance |-> {}, ideas |-> {}, snapshots |-> {}]
        IN  /\ FolderById(db', folder_id) = {}
            /\ Owned(db', ideas', table', folder_id) = empty
            /\ \A r \in table' : \E i \in 1..Len(ideas') : ideas'[i].id = r.idea_id
            /\ \A f \in db.folders :
                  f.id # folder_id =>
                      /\ f \in db'.folders
                      /\ Owned(db', ideas', table', f.id) = Owned(db, ideas, table, f.id)
            /\ list_earnings(db', folder_id).error = "404"
            /\ list_guidance(db', folder_id).error = "404"

\* A list served in this step for a folder that is gone has answered 404.
ListOfDeletedIsNotFound ==
    nops' = nops + 1 /\ last'.op \in {"list_earnings", "list_guidance"}
                     /\ FolderById(db, last'.req) = {} =>
        last'.error = "404"

====
